---- MODULE Spec2Model ----
(***************************************************************************)
(* Real-time analytics of the markdown site: the pageViews event log, the  *)
(* activeSessions table, the recordPageView and heartbeat mutations, the   *)
(* cleanupStaleSessions cron mutation and the getStats query, and the      *)
(* client hook usePageTracking (getSessionId, the page-view effect,        *)
(* sendHeartbeat and the heartbeat effect), as given in                    *)
(* content/blog/version-rc1.md ("How stats work").                         *)
(*                                                                         *)
(* Time is in milliseconds, as returned by Date.now().  A table is a       *)
(* sequence of rows in creation order.                                     *)
(***************************************************************************)
EXTENDS Integers, Sequences, FiniteSets, TLC

\* ---------------------------------------------------------------- constants
\* Configuration constants table: "DEDUP_WINDOW_MS | 30 minutes"
DEDUP_WINDOW_MS == 30 * 60 * 1000
\* Configuration constants table: "SESSION_TIMEOUT_MS | 2 minutes"
SESSION_TIMEOUT_MS == 2 * 60 * 1000
\* const HEARTBEAT_DEDUP_MS = 10 * 1000;
HEARTBEAT_DEDUP_MS == 10 * 1000

\* const HEARTBEAT_INTERVAL_MS = 30 * 1000;
HEARTBEAT_INTERVAL_MS == 30 * 1000
\* const HEARTBEAT_DEBOUNCE_MS = 5 * 1000;
HEARTBEAT_DEBOUNCE_MS == 5 * 1000

\* ------------------------------------------------------------------- bounds
MaxTicks == 2        \* clock advances explored
MaxViews == 3        \* rows the pageViews log may hold
MaxSessionRows == 2  \* rows the activeSessions table may hold
MaxInFlight == 2     \* mutation invocations that may run concurrently
MaxIds == 2          \* identifiers generateSessionId may hand out
MaxLen == 2          \* characters in a path or a slug
MaxIntervals == 5    \* interval periods an open tab is followed for
MaxStreams == 1      \* Ask AI sessions created
MaxResults == 2      \* search results a question may have
MaxChunks == 2       \* text chunks a model answer may have
MaxMessages == 4     \* messages the modal's conversation may hold
MaxSends == 2        \* createSession calls of the modal that succeed
MaxHighlights == 2   \* performHighlighting calls followed
MaxParamChanges == 1 \* changes of the URL's other search parameters followed

Sessions == {"s1", "s2"}
Paths == {"/", "/docs"}
PageTypes == {"home", "page"}
\* amounts by which the clock advances: one millisecond and amounts next to
\* each window, so that both sides of every boundary and the boundary itself
\* are reached
ViewDeltas == {1, DEDUP_WINDOW_MS - 1}
SessionDeltas == {1, HEARTBEAT_DEDUP_MS - 1, SESSION_TIMEOUT_MS}
StoreDeltas == {1, SESSION_TIMEOUT_MS + 1, DEDUP_WINDOW_MS}
FrameDeltas == {DEDUP_WINDOW_MS}
ClientDeltas == {1, HEARTBEAT_DEBOUNCE_MS - 1, HEARTBEAT_INTERVAL_MS}
\* localStorage: working; getItem/setItem throwing (storage blocked or full);
\* or accepting writes without keeping them
StorageModes == {"ok", "throws", "volatile"}
CallIds == 1..MaxInFlight
\* the concurrent executions are explored for the tabs of one browser; the
\* racing recordPageView calls are for one path
RacingSessions == {"s1"}
RacingPaths == {"/docs"}
RacingPageTypes == {"page"}
NoArg == "-"

VARIABLES
    now,            \* Date.now()
    ticks,          \* number of clock advances so far
    pageViews,      \* table pageViews: rows [path, pageType, sessionId, timestamp]
    activeSessions, \* table activeSessions: rows [_id, sessionId, currentPath, lastSeen]
    calls,          \* mutation invocations in flight (concurrent execution only)
    lastOp,         \* the call that returned last, its arguments and its outcome
    firstCallAt,    \* history: time of the first recordPageView call per (sessionId, path)
    viewSeen,       \* history: per pageViews row, rows its invocation's lookup could see
    \* one browser tab running usePageTracking
    storageMode,        \* how localStorage behaves in this browser
    storage,            \* localStorage[SESSION_ID_KEY], 0 for null
    idsGenerated,       \* identifiers generateSessionId has returned so far
    sessionIdRef,       \* sessionIdRef.current, 0 for null
    phase,              \* "new", "mounted" or "unmounted"
    location,           \* location.pathname
    lastRecordedPath,   \* lastRecordedPath.current
    viewsSent,          \* recordPageView calls issued: [path, status]
    isHeartbeatPending, \* isHeartbeatPending.current
    lastHeartbeatTime,  \* lastHeartbeatTime.current
    lastHeartbeatPath,  \* lastHeartbeatPath.current
    hbInFlight,         \* heartbeatMutation calls awaited: [path, at]
    timers,             \* intervals set and not cleared: the path each one captured
    hbLog,              \* history: the last two heartbeat calls issued: [path, at]
    \* one row of getStats' pageStats being resolved
    titleMatch,         \* [path, posts, pages, title, pageType, done]
    \* Ask AI backend
    env,                \* process.env: [openai, anthropic], each key set or not
    askAISessions,      \* table askAISessions: rows [question, streamId, model]
    streamBodies,       \* per stream, the chunks appended so far, in order
    askReq,             \* the last /ask-ai-stream request and what handling it did
    configResult,       \* the last checkConfiguration result
    \* AskAIModal component state
    messages,           \* useState<Message[]>: rows [role, content, streamId]
    inputValue,         \* useState(""): the textarea's text
    isSubmitting,       \* useState(false)
    createPending,      \* createSession calls awaited: the question of each
    drivenIds,          \* useState<Set<string>>: streams this client drives
    \* useSearchHighlighting
    searchQuery,        \* searchParams.get("q")
    hlEnabled,          \* the hook's enabled option
    hlMounted,          \* "new", "mounted" or "unmounted"
    hasHighlighted,     \* hasHighlighted.current
    pollTimeout,        \* due time of the pending attemptHighlight timeout
    urlTimeout,         \* due time of the pending timeout that removes ?q=
    startTime,          \* startTime of the main effect's last run
    hlClock,            \* Date.now() as the hook's timeouts see it
    contentReady,       \* the container exists and hasContent(container)
    highlightCount,     \* history: calls of performHighlighting
    paramChanges,       \* history: changes of the URL's other search parameters
    escaped             \* history: Escape was pressed while the listener was on

serverVars == <<pageViews, activeSessions, calls, firstCallAt, viewSeen>>

clientVars == <<storageMode, storage, idsGenerated, sessionIdRef, phase, location,
                lastRecordedPath, viewsSent, isHeartbeatPending, lastHeartbeatTime,
                lastHeartbeatPath, hbInFlight, timers, hbLog>>

statsVars == <<titleMatch>>

askVars == <<env, askAISessions, streamBodies, askReq, configResult>>

modalVars == <<messages, inputValue, isSubmitting, createPending, drivenIds>>

hlVars == <<searchQuery, hlEnabled, hlMounted, hasHighlighted, pollTimeout,
            urlTimeout, startTime, hlClock, contentReady, highlightCount,
          paramChanges, escaped>>

siteVars == <<askVars, modalVars, hlVars>>

analyticsVars == <<now, ticks, serverVars, clientVars, statsVars>>

vars == <<now, ticks, pageViews, activeSessions, calls, lastOp, firstCallAt, viewSeen,
          storageMode, storage, idsGenerated, sessionIdRef, phase, location,
          lastRecordedPath, viewsSent, isHeartbeatPending, lastHeartbeatTime,
          lastHeartbeatPath, hbInFlight, timers, hbLog, titleMatch,
          env, askAISessions, streamBodies, askReq, configResult,
          messages, inputValue, isSubmitting, createPending, drivenIds,
          searchQuery, hlEnabled, hlMounted, hasHighlighted, pollTimeout,
          urlTimeout, startTime, hlClock, contentReady, highlightCount,
          paramChanges, escaped>>

\* ------------------------------------------------------------------ helpers
SeqMax(is) == IF is = {} THEN 0
              ELSE LET i == CHOOSE x \in is : \A y \in is : y <= x IN i

SeqMin(is) == IF is = {} THEN 0
              ELSE LET i == CHOOSE x \in is : \A y \in is : x <= y IN i

\* rows of a pageViews table matched by index by_session_path
ViewsOf(views, s, p) ==
    {i \in 1..Len(views) : views[i].sessionId = s /\ views[i].path = p}

\* variant: the query without its index range, returning the newest row of the table
RecentViewQuery_AnyPair(views, s, p) == Len(views)

\* variant: the query ordered ascending, returning the oldest matching row
RecentViewQuery_Oldest(views, s, p) == SeqMin(ViewsOf(views, s, p))

\* .withIndex("by_session_path", eq sessionId, eq path).order("desc").first()
\* 0 stands for null
RecentViewQuery(views, s, p) == SeqMax(ViewsOf(views, s, p))

\* variant: the cutoff taken with the heartbeat window
DedupCutoff_HeartbeatWindow(t) == t - HEARTBEAT_DEDUP_MS

\* const dedupCutoff = Date.now() - DEDUP_WINDOW_MS;
DedupCutoff(t) == t - DEDUP_WINDOW_MS

\* variant: the cron's period taken for the session timeout
SessionCutoff_CronPeriod(t) == t - 5 * 60 * 1000

\* variant: the page-view window taken for the session timeout
SessionCutoff_DedupWindow(t) == t - DEDUP_WINDOW_MS

\* const cutoff = Date.now() - SESSION_TIMEOUT_MS;
SessionCutoff(t) == t - SESSION_TIMEOUT_MS

\* variant: any earlier row of the pair makes the call a duplicate
IsDuplicateView_Ever(views, recentView, dedupCutoff) ==
    recentView # 0

\* variant: the comparison inverted
IsDuplicateView_Inverted(views, recentView, dedupCutoff) ==
    /\ recentView # 0
    /\ views[recentView].timestamp < dedupCutoff

\* variant: a row exactly at the cutoff still counts as a duplicate
IsDuplicateView_AtCutoff(views, recentView, dedupCutoff) ==
    /\ recentView # 0
    /\ views[recentView].timestamp >= dedupCutoff

\* recentView && recentView.timestamp > dedupCutoff
IsDuplicateView(views, recentView, dedupCutoff) ==
    /\ recentView # 0
    /\ views[recentView].timestamp > dedupCutoff

\* the row recordPageView inserts
NewViewEvent(s, p, t, ts) ==
    [path |-> p, pageType |-> t, sessionId |-> s, timestamp |-> ts]

\* variant: the latest row of the pair overwritten when there is one
InsertView_Upsert(views, ev) ==
    LET old == SeqMax(ViewsOf(views, ev.sessionId, ev.path))
    IN  IF old = 0 THEN Append(views, ev) ELSE [views EXCEPT ![old] = ev]

\* ctx.db.insert("pageViews", {...})
InsertView(views, ev) == Append(views, ev)

\* rows of an activeSessions table matched by index by_sessionId
SessionsOf(sess, s) == {i \in 1..Len(sess) : sess[i].sessionId = s}

\* variant: the lookup made on the wrong field, which never matches
ExistingSessionQuery_WrongField(sess, s) ==
    SeqMin({i \in 1..Len(sess) : sess[i].currentPath = s})

\* .withIndex("by_sessionId", eq sessionId).first(); 0 stands for null
ExistingSessionQuery(sess, s) == SeqMin(SessionsOf(sess, s))

\* variant: the early return taken with the client's 5 s debounce window
IsHeartbeatNoop_Debounce(row, p, t) ==
    /\ row.currentPath = p
    /\ t - row.lastSeen < 5 * 1000

\* variant: <= instead of <
IsHeartbeatNoop_Lte(row, p, t) ==
    /\ row.currentPath = p
    /\ t - row.lastSeen <= HEARTBEAT_DEDUP_MS

\* variant: the early return taken within the session timeout
IsHeartbeatNoop_TimeoutWindow(row, p, t) ==
    /\ row.currentPath = p
    /\ t - row.lastSeen < SESSION_TIMEOUT_MS

\* variant: the early return taken whatever the reported path
IsHeartbeatNoop_AnyPath(row, p, t) ==
    t - row.lastSeen < HEARTBEAT_DEDUP_MS

\* existingSession.currentPath === args.currentPath &&
\* now - existingSession.lastSeen < HEARTBEAT_DEDUP_MS
IsHeartbeatNoop(row, p, t) ==
    /\ row.currentPath = p
    /\ t - row.lastSeen < HEARTBEAT_DEDUP_MS

\* position of the row with a given _id, 0 when the row is gone
RowOfId(sess, id) == SeqMin({i \in 1..Len(sess) : sess[i]._id = id})

\* variant: only lastSeen patched
PatchSession_LastSeenOnly(sess, id, p, t) ==
    [i \in 1..Len(sess) |->
        IF sess[i]._id = id
        THEN [sess[i] EXCEPT !.lastSeen = t]
        ELSE sess[i]]

\* ctx.db.patch(existingSession._id, {currentPath, lastSeen: now})
PatchSession(sess, id, p, t) ==
    [i \in 1..Len(sess) |->
        IF sess[i]._id = id
        THEN [sess[i] EXCEPT !.currentPath = p, !.lastSeen = t]
        ELSE sess[i]]

\* document ids are opaque: take the least one that no row and no invocation holds
FreshId(sess, cs) ==
    SeqMin({id \in 1..(MaxSessionRows + MaxInFlight) :
              /\ \A i \in 1..Len(sess) : sess[i]._id # id
              /\ \A c \in CallIds :
                    /\ (cs[c].op = "heartbeat" /\ cs[c].pc = "looked")
                          => cs[c].existing # id
                    /\ id \notin cs[c].stale})

\* variant: a session that has no row is left without one
InsertSession_Missing(sess, cs, s, p, t) == sess

\* ctx.db.insert("activeSessions", {sessionId, currentPath, lastSeen: now})
InsertSession(sess, cs, s, p, t) ==
    Append(sess, [_id |-> FreshId(sess, cs), sessionId |-> s,
                  currentPath |-> p, lastSeen |-> t])

\* variant: .first() instead of .collect()
StaleSessions_First(sess, cutoff) ==
    LET stale == {j \in 1..Len(sess) : sess[j].lastSeen < cutoff}
    IN  IF stale = {} THEN {} ELSE {sess[SeqMin(stale)]._id}

\* variant: q.lte instead of q.lt
StaleSessions_Lte(sess, cutoff) ==
    {sess[i]._id : i \in {j \in 1..Len(sess) : sess[j].lastSeen <= cutoff}}

\* .withIndex("by_lastSeen", (q) => q.lt("lastSeen", cutoff)).collect()
StaleSessions(sess, cutoff) ==
    {sess[i]._id : i \in {j \in 1..Len(sess) : sess[j].lastSeen < cutoff}}

\* Promise.all(staleSessions.map((s) => ctx.db.delete(s._id)))
DeleteSessions(sess, ids) ==
    SelectSeq(sess, LAMBDA r : r._id \notin ids)

\* variant: every stored session counted
ActiveVisitors_AllRows(sess, t) == Len(sess)

\* getStats.activeVisitors: "Sessions with heartbeat in last 2 minutes"
ActiveVisitors(sess, t) ==
    Cardinality({i \in 1..Len(sess) : sess[i].lastSeen >= t - SESSION_TIMEOUT_MS})

\* an invocation slot: the arguments, the value of Date.now() the handler
\* took (at), what its query returned (existing: a pageViews row or an
\* activeSessions _id, 0 for null; exPath, exLastSeen: the fields of the
\* session document read; stale: the _ids the reaper's query collected) and, as
\* history, the pageViews rows that existed at
\* the query (seen) and whether the query returned null while another
\* invocation for the same session, whose query had returned null too, had
\* not written yet (raced)
IdleCall == [op |-> "idle", pc |-> "idle", sessionId |-> NoArg, path |-> NoArg,
             pageType |-> NoArg, at |-> 0, existing |-> 0, exPath |-> NoArg,
             exLastSeen |-> 0, stale |-> {}, seen |-> 0, raced |-> FALSE]

\* count: rows deleted (cleanupStaleSessions), activeVisitors (getStats), 1 for
\* a heartbeat that is the last to return of several whose queries all
\* returned null before any of them wrote, else 0
Op(name, s, p, t, outcome, n) ==
    [op |-> name, sessionId |-> s, path |-> p, pageType |-> t,
     outcome |-> outcome, count |-> n]

\* strings as sequences of characters, up to MaxLen long
Chars == {"/", "a"}
Strings == UNION {[1..n -> Chars] : n \in 0..MaxLen}

\* no pageStats row being resolved
NoTitleMatch == [path |-> <<>>, posts |-> <<>>, pages |-> <<>>,
                 title |-> NoArg, pageType |-> NoArg, done |-> TRUE]

\* the tab before the hook has run; useRef(false), useRef(0), useRef(null)
ClientNew ==
    /\ storage = 0
    /\ idsGenerated = 0
    /\ sessionIdRef = 0
    /\ phase = "new"
    /\ location = NoArg
    /\ lastRecordedPath = NoArg
    /\ viewsSent = <<>>
    /\ isHeartbeatPending = FALSE
    /\ lastHeartbeatTime = 0
    /\ lastHeartbeatPath = NoArg
    /\ hbInFlight = <<>>
    /\ timers = <<>>
    /\ hbLog = <<>>

\* a request body: not JSON at all, or JSON whose streamId is missing
\* (Absent), the empty string (0), the id of a stream or an id no stream has
Absent == -1

\* no request handled yet
NoRequest == [body |-> [json |-> FALSE, streamId |-> Absent], session |-> 0,
              embedded |-> FALSE, llm |-> FALSE,
              search |-> [searchError |-> NoArg, searchResults |-> 0, embedded |-> FALSE]]

\* no checkConfiguration result yet
NoConfig == [configured |-> FALSE, hasOpenAI |-> FALSE, hasAnthropic |-> FALSE,
             missingKeys |-> <<>>, done |-> FALSE]

AskNew ==
    /\ askAISessions = <<>>
    /\ streamBodies = [i \in 1..(MaxStreams + 1) |-> <<>>]
    /\ askReq = NoRequest
    /\ configResult = NoConfig

\* useState([]), useState(""), useState(false), useState(new Set())
ModalNew ==
    /\ messages = <<>>
    /\ inputValue = <<>>
    /\ isSubmitting = FALSE
    /\ createPending = <<>>
    /\ drivenIds = {}

\* a page without ?q=, the hook not yet run
HlNew ==
    /\ searchQuery = NoArg
    /\ hlEnabled = TRUE
    /\ hlMounted = "new"
    /\ hasHighlighted = FALSE
    /\ pollTimeout = -1
    /\ urlTimeout = -1
    /\ startTime = 0
    /\ hlClock = 0
    /\ contentReady = FALSE
    /\ highlightCount = 0
    /\ paramChanges = 0
    /\ escaped = FALSE

\* nothing asked, no key set
SiteNew ==
    /\ env = [openai |-> FALSE, anthropic |-> FALSE]
    /\ AskNew
    /\ ModalNew
    /\ HlNew

\* --------------------------------------------------------------------- Init
Init ==
    /\ storageMode = "ok"
    /\ ClientNew
    /\ SiteNew
    /\ titleMatch = NoTitleMatch
    /\ now = 0
    /\ ticks = 0
    /\ pageViews = <<>>
    /\ activeSessions = <<>>
    /\ calls = [c \in CallIds |-> IdleCall]
    /\ lastOp = Op("init", NoArg, NoArg, NoArg, "null", 0)
    /\ firstCallAt = [s \in Sessions |-> [p \in Paths |-> -1]]
    /\ viewSeen = <<>>

\* ------------------------------------------------- mutations run atomically
\* the clock advances
Tick(d) ==
    /\ ticks < MaxTicks
    /\ now' = now + d
    /\ ticks' = ticks + 1
    /\ lastOp' = Op("tick", NoArg, NoArg, NoArg, "null", 0)
    /\ UNCHANGED <<pageViews, activeSessions, calls, firstCallAt, viewSeen>>
    /\ UNCHANGED clientVars
    /\ UNCHANGED statsVars
    /\ UNCHANGED siteVars

\* recordPageView({path, pageType, sessionId}), handler run as one transaction
RecordPageView(s, p, t) ==
    LET dedupCutoff == DedupCutoff(now)
        recentView == RecentViewQuery(pageViews, s, p)
    IN  /\ IF IsDuplicateView(pageViews, recentView, dedupCutoff)
           THEN /\ UNCHANGED <<pageViews, viewSeen>>
                /\ lastOp' = Op("recordPageView", s, p, t, "duplicate", 0)
           ELSE /\ Len(pageViews) < MaxViews
                /\ pageViews' = InsertView(pageViews, NewViewEvent(s, p, t, now))
                /\ viewSeen' = Append(viewSeen, Len(pageViews))
                /\ lastOp' = Op("recordPageView", s, p, t, "inserted", 0)
        /\ firstCallAt' = IF firstCallAt[s][p] = -1
                          THEN [firstCallAt EXCEPT ![s][p] = now]
                          ELSE firstCallAt
        /\ UNCHANGED <<now, ticks, activeSessions, calls>>
        /\ UNCHANGED clientVars
        /\ UNCHANGED statsVars
    /\ UNCHANGED siteVars

\* heartbeat({sessionId, currentPath}), handler run as one transaction
Heartbeat(s, p) ==
    LET existingSession == ExistingSessionQuery(activeSessions, s)
    IN  /\ IF existingSession # 0
           THEN IF IsHeartbeatNoop(activeSessions[existingSession], p, now)
                THEN /\ UNCHANGED activeSessions
                     /\ lastOp' = Op("heartbeat", s, p, NoArg, "noop", 0)
                ELSE /\ activeSessions' =
                          PatchSession(activeSessions,
                                       activeSessions[existingSession]._id, p, now)
                     /\ lastOp' = Op("heartbeat", s, p, NoArg, "patched", 0)
           ELSE /\ Len(activeSessions) < MaxSessionRows
                /\ activeSessions' = InsertSession(activeSessions, calls, s, p, now)
                /\ lastOp' = Op("heartbeat", s, p, NoArg, "inserted", 0)
        /\ UNCHANGED <<now, ticks, pageViews, calls, firstCallAt, viewSeen>>
        /\ UNCHANGED clientVars
        /\ UNCHANGED statsVars
    /\ UNCHANGED siteVars

\* internal.stats.cleanupStaleSessions, run by the cron
CleanupStaleSessions ==
    LET cutoff == SessionCutoff(now)
        staleSessions == StaleSessions(activeSessions, cutoff)
    IN  /\ activeSessions' = DeleteSessions(activeSessions, staleSessions)
        /\ lastOp' = Op("cleanupStaleSessions", NoArg, NoArg, NoArg, "null",
                        Cardinality(staleSessions))
        /\ UNCHANGED <<now, ticks, pageViews, calls, firstCallAt, viewSeen>>
        /\ UNCHANGED clientVars
        /\ UNCHANGED statsVars
    /\ UNCHANGED siteVars

\* getStats query; count is the activeVisitors field of its result
GetStats ==
    /\ lastOp' = Op("getStats", NoArg, NoArg, NoArg, "stats",
                    ActiveVisitors(activeSessions, now))
    /\ UNCHANGED <<now, ticks, pageViews, activeSessions, calls, firstCallAt, viewSeen>>
    /\ UNCHANGED clientVars
    /\ UNCHANGED statsVars
    /\ UNCHANGED siteVars

\* ------------------------------------- mutations run as concurrent handlers
\* recordPageView up to the end of its query (the first await)
BeginRecordPageView(c, s, p, t) ==
    /\ calls[c].pc = "idle"
    /\ calls' = [calls EXCEPT ![c] =
                   [IdleCall EXCEPT !.op = "recordPageView", !.pc = "looked",
                                    !.sessionId = s, !.path = p, !.pageType = t,
                                    !.at = now,
                                    !.existing = RecentViewQuery(pageViews, s, p),
                                    !.seen = Len(pageViews)]]
    /\ lastOp' = Op("begin", NoArg, NoArg, NoArg, "null", 0)
    /\ UNCHANGED <<now, ticks, pageViews, activeSessions, firstCallAt, viewSeen>>
    /\ UNCHANGED clientVars
    /\ UNCHANGED statsVars
    /\ UNCHANGED siteVars

\* recordPageView from the duplicate test to its return
FinishRecordPageView(c) ==
    LET call == calls[c]
        dedupCutoff == DedupCutoff(call.at)
    IN  /\ call.op = "recordPageView"
        /\ call.pc = "looked"
        /\ IF IsDuplicateView(pageViews, call.existing, dedupCutoff)
           THEN /\ UNCHANGED <<pageViews, viewSeen>>
                /\ lastOp' = Op("recordPageView", call.sessionId, call.path,
                                call.pageType, "duplicate", 0)
           ELSE /\ Len(pageViews) < MaxViews
                /\ pageViews' = InsertView(pageViews,
                                           NewViewEvent(call.sessionId, call.path,
                                                        call.pageType, now))
                /\ viewSeen' = Append(viewSeen, call.seen)
                /\ lastOp' = Op("recordPageView", call.sessionId, call.path,
                                call.pageType, "inserted", 0)
        /\ calls' = [calls EXCEPT ![c] = IdleCall]
        /\ UNCHANGED <<now, ticks, activeSessions, firstCallAt>>
        /\ UNCHANGED clientVars
        /\ UNCHANGED statsVars
    /\ UNCHANGED siteVars

\* heartbeat up to the end of its query (the first await)
BeginHeartbeat(c, s, p) ==
    LET existingSession == ExistingSessionQuery(activeSessions, s)
        racing == {d \in CallIds \ {c} :
                     /\ calls[d].op = "heartbeat"
                     /\ calls[d].pc = "looked"
                     /\ calls[d].sessionId = s
                     /\ calls[d].existing = 0}
    IN  /\ calls[c].pc = "idle"
        /\ calls' = [d \in CallIds |->
                       IF d # c
                       THEN IF existingSession = 0 /\ d \in racing
                            THEN [calls[d] EXCEPT !.raced = TRUE]
                            ELSE calls[d]
                       ELSE IF existingSession # 0
                       THEN [IdleCall EXCEPT
                               !.op = "heartbeat", !.pc = "looked",
                               !.sessionId = s, !.path = p, !.at = now,
                               !.existing = activeSessions[existingSession]._id,
                               !.exPath = activeSessions[existingSession].currentPath,
                               !.exLastSeen = activeSessions[existingSession].lastSeen]
                       ELSE [IdleCall EXCEPT
                               !.op = "heartbeat", !.pc = "looked",
                               !.sessionId = s, !.path = p, !.at = now,
                               !.raced = (racing # {})]]
        /\ lastOp' = Op("begin", NoArg, NoArg, NoArg, "null", 0)
        /\ UNCHANGED <<now, ticks, pageViews, activeSessions, firstCallAt, viewSeen>>
        /\ UNCHANGED clientVars
        /\ UNCHANGED statsVars
    /\ UNCHANGED siteVars

\* heartbeat from the test of existingSession to its return; ctx.db.patch
\* of a document that no longer exists throws
FinishHeartbeat(c) ==
    LET call == calls[c]
        racersLeft == {d \in CallIds \ {c} :
                         /\ calls[d].pc = "looked"
                         /\ calls[d].sessionId = call.sessionId
                         /\ calls[d].raced}
    IN  /\ call.op = "heartbeat"
        /\ call.pc = "looked"
        /\ IF call.existing # 0
           THEN IF IsHeartbeatNoop([currentPath |-> call.exPath,
                                    lastSeen |-> call.exLastSeen],
                                   call.path, call.at)
                THEN /\ UNCHANGED activeSessions
                     /\ lastOp' = Op("heartbeat", call.sessionId, call.path,
                                     NoArg, "noop", 0)
                ELSE IF RowOfId(activeSessions, call.existing) = 0
                     THEN /\ UNCHANGED activeSessions
                          /\ lastOp' = Op("heartbeat", call.sessionId, call.path,
                                          NoArg, "error", 0)
                     ELSE /\ activeSessions' =
                               PatchSession(activeSessions, call.existing,
                                            call.path, call.at)
                          /\ lastOp' = Op("heartbeat", call.sessionId, call.path,
                                          NoArg, "patched", 0)
           ELSE /\ Len(activeSessions) < MaxSessionRows
                /\ activeSessions' =
                       InsertSession(activeSessions, calls, call.sessionId,
                                     call.path, call.at)
                /\ lastOp' = Op("heartbeat", call.sessionId, call.path,
                                NoArg, "inserted",
                                IF call.raced /\ racersLeft = {} THEN 1 ELSE 0)
        /\ calls' = [calls EXCEPT ![c] = IdleCall]
        /\ UNCHANGED <<now, ticks, pageViews, firstCallAt, viewSeen>>
        /\ UNCHANGED clientVars
        /\ UNCHANGED statsVars
    /\ UNCHANGED siteVars

\* cleanupStaleSessions up to the end of its query (the first await)
BeginCleanupStaleSessions(c) ==
    LET cutoff == SessionCutoff(now)
        staleSessions == StaleSessions(activeSessions, cutoff)
    IN  /\ calls[c].pc = "idle"
        /\ calls' = [calls EXCEPT ![c] =
                        [IdleCall EXCEPT !.op = "cleanupStaleSessions",
                                         !.pc = "selected", !.at = now,
                                         !.stale = staleSessions]]
        /\ lastOp' = Op("begin", NoArg, NoArg, NoArg, "null", 0)
        /\ UNCHANGED <<now, ticks, pageViews, activeSessions, firstCallAt, viewSeen>>
        /\ UNCHANGED clientVars
        /\ UNCHANGED statsVars
    /\ UNCHANGED siteVars

\* cleanupStaleSessions from Promise.all of the deletes to its return;
\* ctx.db.delete of a document that no longer exists throws
FinishCleanupStaleSessions(c) ==
    LET call == calls[c]
    IN  /\ call.op = "cleanupStaleSessions"
        /\ call.pc = "selected"
        /\ IF \E id \in call.stale : RowOfId(activeSessions, id) = 0
           THEN /\ UNCHANGED activeSessions
                /\ lastOp' = Op("cleanupStaleSessions", NoArg, NoArg, NoArg, "error",
                                Cardinality(call.stale))
           ELSE /\ activeSessions' = DeleteSessions(activeSessions, call.stale)
                /\ lastOp' = Op("cleanupStaleSessions", NoArg, NoArg, NoArg, "null",
                                Cardinality(call.stale))
        /\ calls' = [calls EXCEPT ![c] = IdleCall]
        /\ UNCHANGED <<now, ticks, pageViews, firstCallAt, viewSeen>>
        /\ UNCHANGED clientVars
        /\ UNCHANGED statsVars
    /\ UNCHANGED siteVars

\* ------------------------------------------------------------ specifications
\* the pageViews write path, one call at a time
NextViews ==
    \/ \E d \in ViewDeltas : Tick(d)
    \/ \E s \in Sessions, p \in Paths, t \in PageTypes : RecordPageView(s, p, t)

SpecViews == Init /\ [][NextViews]_vars

\* the activeSessions write path, the cron and the stats query, one call at a time
NextSessions ==
    \/ \E d \in SessionDeltas : Tick(d)
    \/ \E s \in Sessions, p \in Paths : Heartbeat(s, p)
    \/ CleanupStaleSessions
    \/ GetStats

SpecSessions == Init /\ [][NextSessions]_vars

\* the pageViews write path, handlers interleaved at their awaits
NextConcViews ==
    \/ \E d \in ViewDeltas : Tick(d)
    \/ \E c \in CallIds, s \in RacingSessions, p \in RacingPaths, t \in RacingPageTypes :
           BeginRecordPageView(c, s, p, t)
    \/ \E c \in CallIds : FinishRecordPageView(c)

SpecConcViews == Init /\ [][NextConcViews]_vars

\* the activeSessions write path and the cron, handlers interleaved at their awaits
NextConcSessions ==
    \/ \E d \in SessionDeltas : Tick(d)
    \/ \E c \in CallIds, s \in RacingSessions, p \in Paths : BeginHeartbeat(c, s, p)
    \/ \E c \in CallIds : FinishHeartbeat(c)
    \/ CleanupStaleSessions

SpecConcSessions == Init /\ [][NextConcSessions]_vars

\* the heartbeat and the cron's reaper, both interleaved at their awaits
NextConcReaper ==
    \/ \E d \in SessionDeltas : Tick(d)
    \/ \E c \in CallIds, s \in RacingSessions, p \in Paths : BeginHeartbeat(c, s, p)
    \/ \E c \in CallIds : FinishHeartbeat(c)
    \/ \E c \in CallIds : BeginCleanupStaleSessions(c)
    \/ \E c \in CallIds : FinishCleanupStaleSessions(c)

SpecConcReaper == Init /\ [][NextConcReaper]_vars

\* both tables with every operation on them, one call at a time
NextStore ==
    \/ \E d \in StoreDeltas : Tick(d)
    \/ \E s \in RacingSessions, p \in RacingPaths, t \in RacingPageTypes : RecordPageView(s, p, t)
    \/ \E s \in RacingSessions, p \in Paths : Heartbeat(s, p)
    \/ CleanupStaleSessions
    \/ GetStats

SpecStore == Init /\ [][NextStore]_vars

\* the two mutations called by two sessions, one call at a time
NextFrame ==
    \/ \E d \in FrameDeltas : Tick(d)
    \/ \E s \in Sessions, p \in Paths, t \in RacingPageTypes : RecordPageView(s, p, t)
    \/ \E s \in Sessions, p \in RacingPaths : Heartbeat(s, p)

SpecFrame == Init /\ [][NextFrame]_vars

\* --------------------------------------------- getStats: title matching
\* variant: every leading "/" stripped
RECURSIVE Slug_StripAll(_)
Slug_StripAll(path) ==
    IF Len(path) > 0 /\ path[1] = "/"
    THEN Slug_StripAll([i \in 1..(Len(path) - 1) |-> path[i + 1]])
    ELSE path

\* path.startsWith("/") ? path.slice(1) : path
Slug(path) ==
    IF Len(path) > 0 /\ path[1] = "/"
    THEN [i \in 1..(Len(path) - 1) |-> path[i + 1]]
    ELSE path

\* docs.find((p) => p.slug === slug): the index of the first match, 0 for undefined
Find(docs, slug) == SeqMin({i \in 1..Len(docs) : docs[i].slug = slug})

\* the if / else if that sets title and pageType
ResolveTitle(posts, pages, path, title, pageType) ==
    LET slug == Slug(path)
        post == Find(posts, slug)
        page == Find(pages, slug)
    IN  IF post # 0 THEN [title |-> posts[post].title, pageType |-> "blog"]
        ELSE IF page # 0 THEN [title |-> pages[page].title, pageType |-> "page"]
        ELSE [title |-> title, pageType |-> pageType]

\* the published posts and pages the query matches against
PostLists ==
    {<<>>} \cup {<<[slug |-> a, title |-> "post1"]>> : a \in Strings}
           \cup {<<[slug |-> a, title |-> "post1"], [slug |-> b, title |-> "post2"]>> :
                    a \in Strings, b \in Strings}
PageLists ==
    {<<>>} \cup {<<[slug |-> a, title |-> "page1"]>> : a \in Strings}

\* a pageStats row about to be resolved: its path, and the title and type it starts with
InitStats ==
    /\ now = 0
    /\ ticks = 0
    /\ pageViews = <<>>
    /\ activeSessions = <<>>
    /\ calls = [c \in CallIds |-> IdleCall]
    /\ lastOp = Op("init", NoArg, NoArg, NoArg, NoArg, 0)
    /\ firstCallAt = [s \in Sessions |-> [p \in Paths |-> -1]]
    /\ viewSeen = <<>>
    /\ storageMode = "ok"
    /\ ClientNew
    /\ SiteNew
    /\ titleMatch \in {[path |-> path, posts |-> posts, pages |-> pages,
                        title |-> "untitled", pageType |-> "home", done |-> FALSE] :
                          path \in Strings, posts \in PostLists, pages \in PageLists}

\* the title-matching block runs for the row
MatchTitle ==
    /\ ~titleMatch.done
    /\ LET r == ResolveTitle(titleMatch.posts, titleMatch.pages, titleMatch.path,
                             titleMatch.title, titleMatch.pageType)
       IN  titleMatch' = [titleMatch EXCEPT !.title = r.title, !.pageType = r.pageType,
                                           !.done = TRUE]
    /\ lastOp' = Op("matchTitle", NoArg, NoArg, NoArg, NoArg, 0)
    /\ UNCHANGED <<now, ticks>>
    /\ UNCHANGED serverVars
    /\ UNCHANGED clientVars
    /\ UNCHANGED siteVars

NextStats == MatchTitle

SpecStats == InitStats /\ [][NextStats]_vars

\* ------------------------------------------------- the tab: usePageTracking
\* localStorage.getItem(SESSION_ID_KEY): 0 is null
GetItem(mode, stored) == IF mode = "ok" THEN stored ELSE 0

\* localStorage.setItem(SESSION_ID_KEY, id): what the key holds afterwards
SetItem(mode, stored, id) == IF mode = "ok" THEN id ELSE stored

\* variant: an identifier generated on every call
NeedsNewId_Always(item) == TRUE

\* if (!sessionId)
NeedsNewId(item) == item = 0

\* getSessionId(); the caller keeps the value in sessionIdRef.current. With
\* localStorage throwing, the call throws: the function has no try/catch.
GetSessionId ==
    /\ IF storageMode = "throws"
       THEN /\ lastOp' = Op("getSessionId", NoArg, NoArg, NoArg, "threw", 0)
            /\ UNCHANGED <<storage, idsGenerated, sessionIdRef>>
       ELSE LET item == GetItem(storageMode, storage)
                id == idsGenerated + 1
            IN  IF NeedsNewId(item)
                THEN /\ idsGenerated < MaxIds
                     /\ idsGenerated' = id
                     /\ storage' = SetItem(storageMode, storage, id)
                     /\ sessionIdRef' = id
                     /\ lastOp' = Op("getSessionId", NoArg, NoArg, NoArg, "generated", id)
                ELSE /\ sessionIdRef' = item
                     /\ lastOp' = Op("getSessionId", NoArg, NoArg, NoArg, "stored", item)
                     /\ UNCHANGED <<storage, idsGenerated>>
    /\ UNCHANGED <<now, ticks, storageMode, phase, location, lastRecordedPath, viewsSent,
                   isHeartbeatPending, lastHeartbeatTime, lastHeartbeatPath, hbInFlight,
                   timers, hbLog>>
    /\ UNCHANGED serverVars
    /\ UNCHANGED statsVars
    /\ UNCHANGED siteVars

\* variant: the marker left as it was
NextRecordedPath_Kept(last, path) == last

\* lastRecordedPath.current = path
NextRecordedPath(last, path) == path

\* the page-view effect: one recordPageView call when the path differs from
\* the marker; the call's promise is dropped
PageViewEffect(path) ==
    IF lastRecordedPath # path
    THEN /\ Len(viewsSent) < MaxViews
         /\ lastRecordedPath' = NextRecordedPath(lastRecordedPath, path)
         /\ viewsSent' = Append(viewsSent, [path |-> path, status |-> "pending"])
    ELSE UNCHANGED <<lastRecordedPath, viewsSent>>

\* variant: no pending check
PendingGuard_Off(pending) == FALSE

\* if (isHeartbeatPending.current) return;
PendingGuard(pending) == pending

\* variant: the path not compared
IsDebounced_AnyPath(lastPath, lastTime, path, t) ==
    t - lastTime < HEARTBEAT_DEBOUNCE_MS

\* lastHeartbeatPath.current === path && now - lastHeartbeatTime.current < HEARTBEAT_DEBOUNCE_MS
IsDebounced(lastPath, lastTime, path, t) ==
    /\ lastPath = path
    /\ t - lastTime < HEARTBEAT_DEBOUNCE_MS

\* how far sendHeartbeat(path) gets before its await when Date.now() is t
SendOutcomeAt(path, t) ==
    IF sessionIdRef = 0 THEN "no-session"
    ELSE IF PendingGuard(isHeartbeatPending) THEN "skipped-pending"
    ELSE IF IsDebounced(lastHeartbeatPath, lastHeartbeatTime, path, t) THEN "skipped-debounce"
    ELSE "issued"

SendOutcome(path) == SendOutcomeAt(path, now)

\* sendHeartbeat(path) up to the await of heartbeatMutation when Date.now() is t
SendHeartbeatAt(path, t) ==
    IF SendOutcomeAt(path, t) = "issued"
    THEN /\ Len(hbInFlight) < MaxInFlight
         /\ isHeartbeatPending' = TRUE
         /\ lastHeartbeatTime' = t
         /\ lastHeartbeatPath' = path
         /\ hbInFlight' = Append(hbInFlight, [path |-> path, at |-> t])
         /\ hbLog' = IF hbLog = <<>> THEN <<[path |-> path, at |-> t]>>
                     ELSE <<hbLog[Len(hbLog)], [path |-> path, at |-> t]>>
    ELSE UNCHANGED <<isHeartbeatPending, lastHeartbeatTime, lastHeartbeatPath,
                     hbInFlight, hbLog>>

SendHeartbeat(path) == SendHeartbeatAt(path, now)

\* variant: the effect returns no cleanup
ClearInterval_Missing(ts) == ts

\* the cleanup of the previous run of the heartbeat effect: clearInterval(intervalId)
ClearInterval(ts) == <<>>

\* the heartbeat effect: cleanup of the previous run, sendHeartbeat(path), setInterval
HeartbeatEffect(path) ==
    /\ Len(ClearInterval(timers)) < MaxInFlight
    /\ SendHeartbeat(path)
    /\ timers' = Append(ClearInterval(timers), path)

\* location.pathname becomes p (the first render included): both effects run
Navigate(p) ==
    /\ phase # "unmounted"
    /\ p # location
    /\ phase' = "mounted"
    /\ location' = p
    /\ PageViewEffect(p)
    /\ HeartbeatEffect(p)
    /\ lastOp' = Op("navigate", NoArg, p, NoArg, SendOutcome(p),
                    IF lastRecordedPath # p THEN 1 ELSE 0)
    /\ UNCHANGED <<now, ticks, storageMode, storage, idsGenerated, sessionIdRef>>
    /\ UNCHANGED serverVars
    /\ UNCHANGED statsVars
    /\ UNCHANGED siteVars

\* the effects run again with location.pathname unchanged (a dependency other
\* than the path changed)
RerunEffects ==
    /\ phase = "mounted"
    /\ PageViewEffect(location)
    /\ HeartbeatEffect(location)
    /\ lastOp' = Op("rerun", NoArg, location, NoArg, SendOutcome(location),
                    IF lastRecordedPath # location THEN 1 ELSE 0)
    /\ UNCHANGED <<now, ticks, storageMode, storage, idsGenerated, sessionIdRef,
                   phase, location>>
    /\ UNCHANGED serverVars
    /\ UNCHANGED statsVars
    /\ UNCHANGED siteVars

\* an interval set by the heartbeat effect fires: sendHeartbeat(path) with the
\* path it captured
IntervalFires(i) ==
    /\ i \in 1..Len(timers)
    /\ SendHeartbeat(timers[i])
    /\ lastOp' = Op("interval", NoArg, timers[i], NoArg, SendOutcome(timers[i]), 0)
    /\ UNCHANGED <<now, ticks, storageMode, storage, idsGenerated, sessionIdRef,
                   phase, location, lastRecordedPath, viewsSent, timers>>
    /\ UNCHANGED serverVars
    /\ UNCHANGED statsVars
    /\ UNCHANGED siteVars

\* variant: the flag cleared after the await inside try, no finally
PendingAfterCompletion_NoFinally(ok, pending) == IF ok THEN FALSE ELSE pending

\* finally { isHeartbeatPending.current = false; }
PendingAfterCompletion(ok, pending) == FALSE

\* try { await heartbeatMutation(...) } catch { } : a rejection is swallowed
CompletionOutcome(ok) == IF ok THEN "resolved" ELSE "swallowed"

RemoveAt(q, i) == [j \in 1..(Len(q) - 1) |-> IF j < i THEN q[j] ELSE q[j + 1]]

\* the awaited heartbeatMutation call settles and sendHeartbeat resumes
HeartbeatCompletes(i, ok) ==
    /\ i \in 1..Len(hbInFlight)
    /\ hbInFlight' = RemoveAt(hbInFlight, i)
    /\ isHeartbeatPending' = PendingAfterCompletion(ok, isHeartbeatPending)
    /\ lastOp' = Op("heartbeatDone", NoArg, hbInFlight[i].path, NoArg, CompletionOutcome(ok), 0)
    /\ UNCHANGED <<now, ticks, storageMode, storage, idsGenerated, sessionIdRef,
                   phase, location, lastRecordedPath, viewsSent, lastHeartbeatTime,
                   lastHeartbeatPath, timers, hbLog>>
    /\ UNCHANGED serverVars
    /\ UNCHANGED statsVars
    /\ UNCHANGED siteVars

\* a recordPageView call settles; nothing in the hook waits for it
ViewCompletes(i, ok) ==
    /\ i \in 1..Len(viewsSent)
    /\ viewsSent[i].status = "pending"
    /\ viewsSent' = [viewsSent EXCEPT ![i].status = IF ok THEN "recorded" ELSE "failed"]
    /\ lastOp' = Op("viewDone", NoArg, viewsSent[i].path, NoArg,
                    IF ok THEN "resolved" ELSE "rejected", 0)
    /\ UNCHANGED <<now, ticks, storageMode, storage, idsGenerated, sessionIdRef,
                   phase, location, lastRecordedPath, isHeartbeatPending,
                   lastHeartbeatTime, lastHeartbeatPath, hbInFlight, timers, hbLog>>
    /\ UNCHANGED serverVars
    /\ UNCHANGED statsVars
    /\ UNCHANGED siteVars

\* the component unmounts: the heartbeat effect's cleanup runs
Unmount ==
    /\ phase = "mounted"
    /\ phase' = "unmounted"
    /\ timers' = ClearInterval(timers)
    /\ lastOp' = Op("unmount", NoArg, location, NoArg, NoArg, 0)
    /\ UNCHANGED <<now, ticks, storageMode, storage, idsGenerated, sessionIdRef,
                   location, lastRecordedPath, viewsSent, isHeartbeatPending,
                   lastHeartbeatTime, lastHeartbeatPath, hbInFlight, hbLog>>
    /\ UNCHANGED serverVars
    /\ UNCHANGED statsVars
    /\ UNCHANGED siteVars

\* a browser whose localStorage behaves in any of the three ways
InitClient ==
    /\ now = 0
    /\ ticks = 0
    /\ pageViews = <<>>
    /\ activeSessions = <<>>
    /\ calls = [c \in CallIds |-> IdleCall]
    /\ lastOp = Op("init", NoArg, NoArg, NoArg, NoArg, 0)
    /\ firstCallAt = [s \in Sessions |-> [p \in Paths |-> -1]]
    /\ viewSeen = <<>>
    /\ storageMode \in StorageModes
    /\ ClientNew
    /\ SiteNew
    /\ titleMatch = NoTitleMatch

NextClient ==
    \/ \E d \in ClientDeltas : Tick(d)
    \/ GetSessionId
    \/ \E p \in Paths : Navigate(p)
    \/ RerunEffects
    \/ \E i \in 1..MaxInFlight : IntervalFires(i)
    \/ \E i \in 1..MaxInFlight, ok \in BOOLEAN : HeartbeatCompletes(i, ok)
    \/ Unmount

SpecClient == InitClient /\ [][NextClient]_vars

\* the page-view recorder of the tab, with its calls settling
NextClientViews ==
    \/ GetSessionId
    \/ \E p \in Paths : Navigate(p)
    \/ RerunEffects
    \/ \E i \in 1..MaxViews, ok \in BOOLEAN : ViewCompletes(i, ok)
    \/ \E i \in 1..MaxInFlight, ok \in BOOLEAN : HeartbeatCompletes(i, ok)
    \/ Unmount

SpecClientViews == InitClient /\ [][NextClientViews]_vars

\* ------------------------------------------- the tab and the server together
\* the sessionId string the tab sends for the identifier it holds
SessionKeyOf(id) == IF id = 1 THEN "s1" ELSE "s2"

\* the activeSessions table after the heartbeat handler ran with (s, p) at time t
HeartbeatWrite(sess, cs, s, p, t) ==
    LET existingSession == ExistingSessionQuery(sess, s)
    IN  IF existingSession # 0
        THEN IF IsHeartbeatNoop(sess[existingSession], p, t)
             THEN sess
             ELSE PatchSession(sess, sess[existingSession]._id, p, t)
        ELSE InsertSession(sess, cs, s, p, t)

\* the awaited heartbeatMutation call reaches the server, the handler runs as
\* one transaction, the call resolves and sendHeartbeat resumes
HeartbeatRoundTrip(i) ==
    /\ i \in 1..Len(hbInFlight)
    /\ sessionIdRef # 0
    /\ LET s == SessionKeyOf(sessionIdRef)
           p == hbInFlight[i].path
       IN  /\ ExistingSessionQuery(activeSessions, s) = 0
                => Len(activeSessions) < MaxSessionRows
           /\ activeSessions' = HeartbeatWrite(activeSessions, calls, s, p, now)
           /\ lastOp' = Op("heartbeatDone", s, p, NoArg, CompletionOutcome(TRUE), 0)
    /\ hbInFlight' = RemoveAt(hbInFlight, i)
    /\ isHeartbeatPending' = PendingAfterCompletion(TRUE, isHeartbeatPending)
    /\ UNCHANGED <<now, ticks, pageViews, calls, firstCallAt, viewSeen>>
    /\ UNCHANGED <<storageMode, storage, idsGenerated, sessionIdRef,
                   phase, location, lastRecordedPath, viewsSent, lastHeartbeatTime,
                   lastHeartbeatPath, timers, hbLog>>
    /\ UNCHANGED statsVars
    /\ UNCHANGED siteVars

\* one tab whose heartbeat calls all reach the server and succeed
NextTab ==
    \/ \E d \in ClientDeltas : Tick(d)
    \/ GetSessionId
    \/ \E p \in Paths : Navigate(p)
    \/ \E i \in 1..MaxInFlight : IntervalFires(i)
    \/ \E i \in 1..MaxInFlight : HeartbeatRoundTrip(i)
    \/ Unmount

SpecTab == Init /\ [][NextTab]_vars

\* every call settles and the interval keeps firing while it is set
SpecTabFair ==
    /\ SpecTab
    /\ WF_vars(\E i \in 1..MaxInFlight : HeartbeatRoundTrip(i))
    /\ WF_vars(\E i \in 1..MaxInFlight : IntervalFires(i))

\* ------------------------------------- an open tab with its interval on time
\* the time at which the interval set at time 0 fires next
NextDue(t) == ((t \div HEARTBEAT_INTERVAL_MS) + 1) * HEARTBEAT_INTERVAL_MS

\* the first render, at time 0, of a tab that holds its session id
Mount(p) ==
    /\ phase = "new"
    /\ sessionIdRef # 0
    /\ now = 0
    /\ Navigate(p)

\* time passes, short of the interval's next due time
TimePasses ==
    /\ phase = "mounted"
    /\ now % HEARTBEAT_INTERVAL_MS = 0
    /\ now < MaxIntervals * HEARTBEAT_INTERVAL_MS
    /\ now' = NextDue(now) - 1
    /\ lastOp' = Op("tick", NoArg, NoArg, NoArg, "null", 0)
    /\ UNCHANGED ticks
    /\ UNCHANGED serverVars
    /\ UNCHANGED clientVars
    /\ UNCHANGED statsVars
    /\ UNCHANGED siteVars

\* the clock reaches the interval's due time and its callback runs
IntervalElapses ==
    /\ phase = "mounted"
    /\ Len(timers) = 1
    /\ now < MaxIntervals * HEARTBEAT_INTERVAL_MS
    /\ now' = NextDue(now)
    /\ SendHeartbeatAt(timers[1], NextDue(now))
    /\ lastOp' = Op("interval", NoArg, timers[1], NoArg,
                    SendOutcomeAt(timers[1], NextDue(now)), 0)
    /\ UNCHANGED <<ticks, storageMode, storage, idsGenerated, sessionIdRef,
                   phase, location, lastRecordedPath, viewsSent, timers>>
    /\ UNCHANGED serverVars
    /\ UNCHANGED statsVars
    /\ UNCHANGED siteVars

\* a tab that stays open at one path, its calls succeeding after any delay,
\* with the cron and the stats query running at any time
NextLive ==
    \/ GetSessionId
    \/ \E p \in RacingPaths : Mount(p)
    \/ TimePasses
    \/ IntervalElapses
    \/ HeartbeatRoundTrip(1)
    \/ CleanupStaleSessions
    \/ GetStats

SpecLive == Init /\ [][NextLive]_vars

\* ------------------------------------------------------------------- Ask AI
\* model: model || "claude-sonnet-4-20250514"
DEFAULT_MODEL == "claude-sonnet-4-20250514"
\* the model argument of createSession; NoArg stands for undefined
Models == {NoArg, "gpt-4o", DEFAULT_MODEL}
Questions == {"q"}
RequestBodies ==
    {[json |-> FALSE, streamId |-> Absent]}
        \cup {[json |-> TRUE, streamId |-> x] : x \in {Absent, 0} \cup (1..(MaxStreams + 1))}
\* what the embedding call and the vector search do once started: throw an
\* Error with a message (possibly empty) or return some results
SearchOutcomes ==
    {[throws |-> TRUE, message |-> m, results |-> 0] : m \in {"", "Search failed"}}
        \cup {[throws |-> FALSE, message |-> NoArg, results |-> n] : n \in 0..MaxResults}
\* what the model call does: deliver some text chunks and then fail or end
GenOutcomes == {[chunks |-> k, throws |-> b] : k \in 0..MaxChunks, b \in BOOLEAN}
\* process.env: which of the two keys are set
Envs == [openai : BOOLEAN, anthropic : BOOLEAN]

\* JavaScript truthiness of a string or null (NoArg)
Truthy(str) == str \notin {NoArg, ""}

\* variant: only an absent streamId rejected
MissingStreamId_AbsentOnly(body) == body.streamId = Absent

\* if (!streamId): undefined and "" are both rejected
MissingStreamId(body) == body.streamId \in {Absent, 0}

\* askAI.getSessionByStreamId: position of the first session of the stream, 0 for null
getSessionByStreamId(sessions, streamId) ==
    SeqMin({i \in 1..Len(sessions) : sessions[i].streamId = streamId})

\* the pre-fetch block of streamResponse: searchError, the number of
\* searchResults and whether the embedding call was made
Search(e, outcome) ==
    IF ~e.openai
    THEN [searchError |-> "OPENAI_API_KEY not configured", searchResults |-> 0,
          embedded |-> FALSE]
    ELSE IF outcome.throws
    THEN [searchError |-> outcome.message, searchResults |-> 0, embedded |-> TRUE]
    ELSE [searchError |-> NoArg, searchResults |-> outcome.results, embedded |-> TRUE]

\* n chunks of one kind
Repeat(kind, n) == [i \in 1..n |-> kind]

\* "\n\n---\n\n**Sources:**\n" and one line per search result
Sources(n) == <<"sourcesHeader">> \o Repeat("source", n)

\* the key the selected model needs is set
HasModelKey(model, e) == IF model = "gpt-4o" THEN e.openai ELSE e.anthropic

\* generateAnswer reaches the model call
CallsModel(search, model, e) ==
    /\ ~Truthy(search.searchError)
    /\ search.searchResults > 0
    /\ HasModelKey(model, e)

\* the chunks the model call appends before it ends or throws: the OpenAI
\* stream appends as it goes, the Anthropic response is split into words
\* only once it has arrived whole
AnswerChunks(model, gen) ==
    IF model = "gpt-4o" \/ ~gen.throws THEN Repeat("answer", gen.chunks) ELSE <<>>

\* variant: the citations appended before the answer
GenerateAnswer_SourcesFirst(search, model, e, gen) ==
    IF Truthy(search.searchError) THEN <<"searchError">>
    ELSE IF search.searchResults = 0 THEN <<"noContent">>
    ELSE IF ~HasModelKey(model, e) THEN <<"keyError">>
    ELSE IF gen.throws THEN AnswerChunks(model, gen) \o <<"genError">>
    ELSE Sources(search.searchResults) \o AnswerChunks(model, gen)

\* generateAnswer: the chunks it appends, in order
GenerateAnswer(search, model, e, gen) ==
    IF Truthy(search.searchError) THEN <<"searchError">>
    ELSE IF search.searchResults = 0 THEN <<"noContent">>
    ELSE IF ~HasModelKey(model, e) THEN <<"keyError">>
    ELSE IF gen.throws THEN AnswerChunks(model, gen) \o <<"genError">>
    ELSE AnswerChunks(model, gen) \o Sources(search.searchResults)

\* missingKeys of checkConfiguration
MissingKeys(e) ==
    (IF ~e.openai THEN <<"OPENAI_API_KEY">> ELSE <<>>)
        \o (IF ~e.anthropic THEN <<"ANTHROPIC_API_KEY">> ELSE <<>>)

\* variant: either key is enough
Configured_EitherKey(e) == e.openai \/ e.anthropic

\* const configured = hasOpenAI && (hasAnthropic || hasOpenAI);
Configured(e) == e.openai /\ (e.anthropic \/ e.openai)

\* askAI.createSession({question, model})
CreateSession(question, model) ==
    /\ Len(askAISessions) < MaxStreams
    /\ LET streamId == Len(askAISessions) + 1
       IN  /\ askAISessions' =
                 Append(askAISessions,
                        [question |-> question, streamId |-> streamId,
                         model |-> IF model = NoArg THEN DEFAULT_MODEL ELSE model])
           /\ lastOp' = Op("createSession", NoArg, NoArg, NoArg, "created", streamId)
    /\ UNCHANGED <<env, streamBodies, askReq, configResult>>
    /\ UNCHANGED analyticsVars
    /\ UNCHANGED modalVars
    /\ UNCHANGED hlVars

\* POST /ask-ai-stream: streamResponse, from request.json() to the response;
\* lastOp.outcome is the status, lastOp.count the number of chunks appended.
\* A stream is driven once, by the StreamingMessage of the client that created it
StreamResponse(body, outcome, gen) ==
    LET session == getSessionByStreamId(askAISessions, body.streamId)
        rejected == ~body.json \/ MissingStreamId(body) \/ session = 0
        search == Search(env, outcome)
        model == askAISessions[session].model
        chunks == GenerateAnswer(search, model, env, gen)
    IN  /\ IF rejected
           THEN /\ lastOp' = Op("streamResponse", NoArg, NoArg, NoArg,
                                IF ~body.json \/ MissingStreamId(body) THEN "400" ELSE "404",
                                0)
                /\ askReq' = [NoRequest EXCEPT !.body = body]
                /\ UNCHANGED streamBodies
           ELSE /\ streamBodies[body.streamId] = <<>>
                /\ streamBodies' = [streamBodies EXCEPT ![body.streamId] = @ \o chunks]
                /\ askReq' = [body |-> body, session |-> session,
                              embedded |-> search.embedded,
                              llm |-> CallsModel(search, model, env),
                              search |-> search]
                /\ lastOp' = Op("streamResponse", NoArg, NoArg, model, "200", Len(chunks))
        /\ UNCHANGED <<env, askAISessions, configResult>>
        /\ UNCHANGED analyticsVars
        /\ UNCHANGED modalVars
        /\ UNCHANGED hlVars

\* askAI.checkConfiguration({})
CheckConfiguration ==
    /\ configResult' = [configured |-> Configured(env), hasOpenAI |-> env.openai,
                        hasAnthropic |-> env.anthropic, missingKeys |-> MissingKeys(env),
                        done |-> TRUE]
    /\ lastOp' = Op("checkConfiguration", NoArg, NoArg, NoArg, "result", 0)
    /\ UNCHANGED <<env, askAISessions, streamBodies, askReq>>
    /\ UNCHANGED analyticsVars
    /\ UNCHANGED modalVars
    /\ UNCHANGED hlVars

\* the analytics side untouched, any combination of the two keys set
InitAsk ==
    /\ now = 0
    /\ ticks = 0
    /\ pageViews = <<>>
    /\ activeSessions = <<>>
    /\ calls = [c \in CallIds |-> IdleCall]
    /\ lastOp = Op("init", NoArg, NoArg, NoArg, NoArg, 0)
    /\ firstCallAt = [s \in Sessions |-> [p \in Paths |-> -1]]
    /\ viewSeen = <<>>
    /\ storageMode = "ok"
    /\ ClientNew
    /\ titleMatch = NoTitleMatch
    /\ env \in Envs
    /\ AskNew
    /\ ModalNew
    /\ HlNew

NextAsk ==
    \/ \E question \in Questions, model \in Models : CreateSession(question, model)
    \/ \E body \in RequestBodies, outcome \in SearchOutcomes, gen \in GenOutcomes :
           StreamResponse(body, outcome, gen)
    \/ CheckConfiguration

SpecAsk == InitAsk /\ [][NextAsk]_vars

\* -------------------------------------------------------------- AskAIModal
\* what the textarea may hold
InputChars == {" ", "a"}
InputValues == UNION {[1..n -> InputChars] : n \in 0..MaxLen}

\* String.prototype.trim
RECURSIVE Trim(_)
Trim(str) ==
    IF str = <<>> THEN str
    ELSE IF Head(str) = " " THEN Trim(Tail(str))
    ELSE IF str[Len(str)] = " " THEN Trim(SubSeq(str, 1, Len(str) - 1))
    ELSE str

\* variant: the input not looked at
SendGuard_SubmittingOnly(input, submitting) == submitting

\* if (!inputValue.trim() || isSubmitting) return;
SendGuard(input, submitting) == Trim(input) = <<>> \/ submitting

\* the three messages handleSend adds
UserMessage(question) == [role |-> "user", content |-> question, streamId |-> 0]
StreamingMessageOf(streamId) == [role |-> "assistant", content |-> <<>>, streamId |-> streamId]
ErrorMessage == [role |-> "assistant", content |-> <<"E">>, streamId |-> 0]

\* the textarea's onChange: setInputValue(e.target.value); the textarea is
\* disabled while isSubmitting
TypeInput(v) ==
    /\ ~isSubmitting
    /\ inputValue' = v
    /\ lastOp' = Op("typeInput", NoArg, NoArg, NoArg, "null", 0)
    /\ UNCHANGED <<messages, isSubmitting, createPending, drivenIds>>
    /\ UNCHANGED analyticsVars
    /\ UNCHANGED askVars
    /\ UNCHANGED hlVars

\* handleSend up to the awaited createSession call
HandleSend ==
    /\ IF SendGuard(inputValue, isSubmitting)
       THEN /\ lastOp' = Op("handleSend", NoArg, NoArg, NoArg, "ignored", 0)
            /\ UNCHANGED <<messages, inputValue, isSubmitting, createPending>>
       ELSE /\ Len(messages) + 2 <= MaxMessages
            /\ inputValue' = <<>>
            /\ isSubmitting' = TRUE
            /\ messages' = Append(messages, UserMessage(Trim(inputValue)))
            /\ createPending' = Append(createPending, Trim(inputValue))
            /\ lastOp' = Op("handleSend", NoArg, NoArg, NoArg, "accepted", 0)
    /\ UNCHANGED drivenIds
    /\ UNCHANGED analyticsVars
    /\ UNCHANGED askVars
    /\ UNCHANGED hlVars

\* the createSession call settles and handleSend runs to its end: the
\* assistant message, the catch, the finally
CreateSessionSettles(ok) ==
    /\ createPending # <<>>
    /\ LET streamId == Len(askAISessions) + 1
       IN  IF ok
           THEN /\ Len(askAISessions) < MaxSends
                /\ askAISessions' =
                       Append(askAISessions,
                              [question |-> Head(createPending), streamId |-> streamId,
                               model |-> DEFAULT_MODEL])
                /\ messages' = Append(messages, StreamingMessageOf(streamId))
                /\ drivenIds' = drivenIds \cup {streamId}
                /\ lastOp' = Op("createSessionDone", NoArg, NoArg, NoArg, "resolved", streamId)
           ELSE /\ messages' = Append(messages, ErrorMessage)
                /\ lastOp' = Op("createSessionDone", NoArg, NoArg, NoArg, "rejected", 0)
                /\ UNCHANGED <<askAISessions, drivenIds>>
    /\ createPending' = Tail(createPending)
    /\ isSubmitting' = FALSE
    /\ UNCHANGED inputValue
    /\ UNCHANGED <<env, streamBodies, askReq, configResult>>
    /\ UNCHANGED analyticsVars
    /\ UNCHANGED hlVars

\* handleClear: setMessages([]); setDrivenIds(new Set())
HandleClear ==
    /\ messages' = <<>>
    /\ drivenIds' = {}
    /\ lastOp' = Op("handleClear", NoArg, NoArg, NoArg, "null", 0)
    /\ UNCHANGED <<inputValue, isSubmitting, createPending>>
    /\ UNCHANGED analyticsVars
    /\ UNCHANGED askVars
    /\ UNCHANGED hlVars

\* the open modal: typing, sending, clearing, createSession calls settling
NextModal ==
    \/ \E v \in InputValues : TypeInput(v)
    \/ HandleSend
    \/ \E ok \in BOOLEAN : CreateSessionSettles(ok)
    \/ HandleClear

SpecModal == Init /\ [][NextModal]_vars

\* every createSession call settles
SpecModalFair == SpecModal /\ WF_vars(\E ok \in BOOLEAN : CreateSessionSettles(ok))

\* ---------------------------------------------------- useSearchHighlighting
\* const MAX_WAIT_TIME = 5000;
MAX_WAIT_TIME == 5000
\* const POLL_INTERVAL = 100;
POLL_INTERVAL == 100
\* setTimeout(..., 500) that removes ?q= after highlighting
URL_CLEANUP_DELAY == 500
\* how late after its due time a timeout may fire
Lateness == {0, 50}
\* searchParams.get("q"): null (NoArg), the empty string or a search term
QueryValues == {NoArg, "", "a"}
\* no timeout pending
NoTimer == -1

\* variant: the effect runs again although the query was highlighted
SkipsEffect_NoRef(enabled, query, highlighted) ==
    ~enabled \/ ~Truthy(query)

\* if (elapsed > MAX_WAIT_TIME)
GiveUp(elapsed) == elapsed > MAX_WAIT_TIME

\* if (!enabled || !searchQuery || hasHighlighted.current) return;
SkipsEffect(enabled, query, highlighted) ==
    ~enabled \/ ~Truthy(query) \/ highlighted

\* the component using the hook renders for the first time: the main effect runs
MountHook ==
    /\ hlMounted = "new"
    /\ hlMounted' = "mounted"
    /\ IF SkipsEffect(hlEnabled, searchQuery, hasHighlighted)
       THEN UNCHANGED <<startTime, pollTimeout>>
       ELSE /\ startTime' = hlClock
            /\ pollTimeout' = hlClock + POLL_INTERVAL
    /\ lastOp' = Op("mountHook", NoArg, NoArg, NoArg,
                    IF SkipsEffect(hlEnabled, searchQuery, hasHighlighted)
                    THEN "skipped" ELSE "polling", 0)
    /\ UNCHANGED <<searchQuery, hlEnabled, hasHighlighted, urlTimeout, hlClock,
                   contentReady, highlightCount, paramChanges, escaped>>
    /\ UNCHANGED analyticsVars
    /\ UNCHANGED askVars
    /\ UNCHANGED modalVars

\* the page's content arrives: containerRef.current exists and hasContent is true
ContentLoads ==
    /\ hlMounted = "mounted"
    /\ ~contentReady
    /\ contentReady' = TRUE
    /\ lastOp' = Op("contentLoads", NoArg, NoArg, NoArg, "null", 0)
    /\ UNCHANGED <<searchQuery, hlEnabled, hlMounted, hasHighlighted, pollTimeout,
                   urlTimeout, startTime, hlClock, highlightCount, paramChanges,
                   escaped>>
    /\ UNCHANGED analyticsVars
    /\ UNCHANGED askVars
    /\ UNCHANGED modalVars

\* the poll timeout fires and attemptHighlight runs; removing ?q= changes
\* searchQuery, so the effects' cleanups run (hasHighlighted.current = false)
\* and the main effect returns at its guard. lastOp.count is elapsed. Timeouts
\* fire in the order of their due times; of the ?q= removals pending the
\* earliest is kept, the later ones finding q removed
PollFires(late) ==
    /\ pollTimeout # NoTimer
    /\ urlTimeout = NoTimer \/ pollTimeout <= urlTimeout
    /\ LET t == pollTimeout + late
           elapsed == t - startTime
       IN  /\ hlClock' = t
           /\ IF GiveUp(elapsed)
              THEN /\ searchQuery' = NoArg
                   /\ hasHighlighted' = FALSE
                   /\ pollTimeout' = NoTimer
                   /\ lastOp' = Op("poll", NoArg, NoArg, NoArg, "gaveUp", elapsed)
                   /\ UNCHANGED <<urlTimeout, highlightCount>>
              ELSE IF ~contentReady
              THEN /\ pollTimeout' = t + POLL_INTERVAL
                   /\ lastOp' = Op("poll", NoArg, NoArg, NoArg, "waiting", elapsed)
                   /\ UNCHANGED <<searchQuery, hasHighlighted, urlTimeout, highlightCount>>
              ELSE /\ highlightCount < MaxHighlights
                   /\ highlightCount' = highlightCount + 1
                   /\ hasHighlighted' = TRUE
                   /\ urlTimeout' = IF urlTimeout = NoTimer
                                     THEN t + URL_CLEANUP_DELAY ELSE urlTimeout
                   /\ pollTimeout' = NoTimer
                   /\ lastOp' = Op("poll", NoArg, NoArg, NoArg, "highlighted", elapsed)
                   /\ UNCHANGED searchQuery
    /\ UNCHANGED <<hlEnabled, hlMounted, startTime, contentReady, paramChanges,
                   escaped>>
    /\ UNCHANGED analyticsVars
    /\ UNCHANGED askVars
    /\ UNCHANGED modalVars

\* clearTimeout(pollTimeoutRef.current) of the main effect's cleanup
ClearPoll(timer) == NoTimer

\* the timeout set after highlighting fires: searchParams.delete("q"); it is
\* not cleared by any cleanup. While mounted, the change of searchQuery runs
\* the effects' cleanups and the main effect returns at its guard
UrlCleanupFires(late) ==
    /\ urlTimeout # NoTimer
    /\ pollTimeout = NoTimer \/ urlTimeout <= pollTimeout
    /\ pollTimeout' = IF hlMounted = "mounted" THEN ClearPoll(pollTimeout)
                      ELSE pollTimeout
    /\ hlClock' = urlTimeout + late
    /\ urlTimeout' = NoTimer
    /\ searchQuery' = NoArg
    /\ hasHighlighted' = FALSE
    /\ lastOp' = Op("urlCleanup", NoArg, NoArg, NoArg, "null", 0)
    /\ UNCHANGED <<hlEnabled, hlMounted, startTime, contentReady, highlightCount,
                   paramChanges, escaped>>
    /\ UNCHANGED analyticsVars
    /\ UNCHANGED askVars
    /\ UNCHANGED modalVars

\* Escape pressed while the keydown listener is registered, which it is when
\* searchQuery was set at the effect's run
EscapeKey ==
    /\ hlMounted = "mounted"
    /\ Truthy(searchQuery)
    /\ hasHighlighted' = FALSE
    /\ escaped' = TRUE
    /\ lastOp' = Op("escape", NoArg, NoArg, NoArg, "null", 0)
    /\ UNCHANGED <<searchQuery, hlEnabled, hlMounted, pollTimeout, urlTimeout,
                   startTime, hlClock, contentReady, highlightCount, paramChanges>>
    /\ UNCHANGED analyticsVars
    /\ UNCHANGED askVars
    /\ UNCHANGED modalVars

\* another search parameter of the URL changes while q stays: useSearchParams
\* returns a new searchParams, a dependency of the main effect only, whose
\* cleanup and body run again
ParamsChange ==
    /\ hlMounted = "mounted"
    /\ paramChanges < MaxParamChanges
    /\ paramChanges' = paramChanges + 1
    /\ IF SkipsEffect(hlEnabled, searchQuery, hasHighlighted)
       THEN /\ pollTimeout' = ClearPoll(pollTimeout)
            /\ UNCHANGED startTime
       ELSE /\ startTime' = hlClock
            /\ pollTimeout' = hlClock + POLL_INTERVAL
    /\ lastOp' = Op("paramsChange", NoArg, NoArg, NoArg,
                    IF SkipsEffect(hlEnabled, searchQuery, hasHighlighted)
                    THEN "skipped" ELSE "polling", 0)
    /\ UNCHANGED <<searchQuery, hlEnabled, hlMounted, hasHighlighted, urlTimeout,
                   hlClock, contentReady, highlightCount, escaped>>
    /\ UNCHANGED analyticsVars
    /\ UNCHANGED askVars
    /\ UNCHANGED modalVars

\* the component unmounts: the effects' cleanups run
UnmountHook ==
    /\ hlMounted = "mounted"
    /\ hlMounted' = "unmounted"
    /\ pollTimeout' = ClearPoll(pollTimeout)
    /\ hasHighlighted' = FALSE
    /\ lastOp' = Op("unmountHook", NoArg, NoArg, NoArg, "null", 0)
    /\ UNCHANGED <<searchQuery, hlEnabled, urlTimeout, startTime, hlClock,
                   contentReady, highlightCount, paramChanges, escaped>>
    /\ UNCHANGED analyticsVars
    /\ UNCHANGED askVars
    /\ UNCHANGED modalVars

\* a page opened with any ?q= and the hook enabled or not
InitHighlight ==
    /\ now = 0
    /\ ticks = 0
    /\ pageViews = <<>>
    /\ activeSessions = <<>>
    /\ calls = [c \in CallIds |-> IdleCall]
    /\ lastOp = Op("init", NoArg, NoArg, NoArg, NoArg, 0)
    /\ firstCallAt = [s \in Sessions |-> [p \in Paths |-> -1]]
    /\ viewSeen = <<>>
    /\ storageMode = "ok"
    /\ ClientNew
    /\ titleMatch = NoTitleMatch
    /\ env = [openai |-> FALSE, anthropic |-> FALSE]
    /\ AskNew
    /\ ModalNew
    /\ searchQuery \in QueryValues
    /\ hlEnabled \in BOOLEAN
    /\ contentReady \in BOOLEAN
    /\ hlMounted = "new"
    /\ hasHighlighted = FALSE
    /\ pollTimeout = NoTimer
    /\ urlTimeout = NoTimer
    /\ startTime = 0
    /\ hlClock = 0
    /\ highlightCount = 0
    /\ paramChanges = 0
    /\ escaped = FALSE

NextHighlight ==
    \/ MountHook
    \/ ContentLoads
    \/ \E late \in Lateness : PollFires(late)
    \/ \E late \in Lateness : UrlCleanupFires(late)
    \/ EscapeKey
    \/ ParamsChange
    \/ UnmountHook

SpecHighlight == InitHighlight /\ [][NextHighlight]_vars

\* a timeout that is set and not cleared fires
SpecHighlightFair ==
    /\ SpecHighlight
    /\ WF_vars(\E late \in Lateness : PollFires(late))
    /\ WF_vars(\E late \in Lateness : UrlCleanupFires(late))

\* ------------------------------------------------------------------- claims
SamePair(views, i, j) ==
    /\ views[i].sessionId = views[j].sessionId
    /\ views[i].path = views[j].path

\* C1: while every recordPageView call for a (sessionId, path) so far came
\* less than DEDUP_WINDOW_MS after the first one, exactly one row is stored
\* for that pair, whatever the number of calls and their pageType.
C1_ViewDedupIdempotence ==
    \A s \in Sessions, p \in Paths :
        (firstCallAt[s][p] # -1 /\ now - firstCallAt[s][p] < DEDUP_WINDOW_MS)
            => Cardinality(ViewsOf(pageViews, s, p)) = 1

\* a repeated call one millisecond inside the window, carrying another
\* pageType than the stored row, has just been rejected
C1_Witness ==
    /\ lastOp.op = "recordPageView"
    /\ lastOp.outcome = "duplicate"
    /\ now - firstCallAt[lastOp.sessionId][lastOp.path] = DEDUP_WINDOW_MS - 1
    /\ \E i \in ViewsOf(pageViews, lastOp.sessionId, lastOp.path) :
           pageViews[i].pageType # lastOp.pageType

\* C2: a recordPageView call for (s, p) made DEDUP_WINDOW_MS or more after
\* the latest stored row of (s, p) stores a new row stamped with the time of
\* the call; a call exactly DEDUP_WINDOW_MS later is stored too.
C2_ViewWindowBoundary ==
    [][\A s \in Sessions, p \in Paths :
         LET last == SeqMax(ViewsOf(pageViews, s, p))
         IN  (/\ lastOp'.op = "recordPageView"
              /\ lastOp'.sessionId = s
              /\ lastOp'.path = p
              /\ last # 0
              /\ now >= pageViews[last].timestamp + DEDUP_WINDOW_MS)
             => /\ Len(pageViews') = Len(pageViews) + 1
                /\ SubSeq(pageViews', 1, Len(pageViews)) = pageViews
                /\ pageViews'[Len(pageViews')] =
                       [path |-> p, pageType |-> lastOp'.pageType,
                        sessionId |-> s, timestamp |-> now]]_vars

\* two rows of one pair stored exactly DEDUP_WINDOW_MS apart
C2_Witness ==
    \E i, j \in 1..Len(pageViews) :
        /\ i < j
        /\ SamePair(pageViews, i, j)
        /\ pageViews[j].timestamp = pageViews[i].timestamp + DEDUP_WINDOW_MS

\* C3: any two stored rows with the same (sessionId, path) have timestamps
\* at least DEDUP_WINDOW_MS apart.
C3_ViewSpacing ==
    \A i, j \in 1..Len(pageViews) :
        (i < j /\ SamePair(pageViews, i, j))
            => pageViews[j].timestamp - pageViews[i].timestamp >= DEDUP_WINDOW_MS

\* two rows of one pair and a row of another session are stored
C3_Witness ==
    \E i, j, k \in 1..Len(pageViews) :
        /\ i < j
        /\ SamePair(pageViews, i, j)
        /\ pageViews[k].sessionId # pageViews[i].sessionId

\* the row of the activeSessions table that a heartbeat for s finds
SessionRow(s) == SeqMin({i \in 1..Len(activeSessions) : activeSessions[i].sessionId = s})

\* C4: the activeSessions table never holds two rows for one sessionId, and
\* holds exactly one for s right after a heartbeat for s has returned.
C4_SessionUnique ==
    /\ \A s \in Sessions :
           Cardinality({i \in 1..Len(activeSessions) :
                            activeSessions[i].sessionId = s}) <= 1
    /\ lastOp.op = "heartbeat"
           => Cardinality({i \in 1..Len(activeSessions) :
                               activeSessions[i].sessionId = lastOp.sessionId}) = 1

\* a heartbeat has re-created the row of a session the cron had deleted,
\* while the other session has its row too
C4_Witness ==
    /\ lastOp.op = "heartbeat"
    /\ lastOp.outcome = "inserted"
    /\ Len(activeSessions) = 2
    /\ activeSessions[1].lastSeen >= SESSION_TIMEOUT_MS
    /\ activeSessions[1].sessionId # lastOp.sessionId

\* C5: a heartbeat(s, p) that finds the row of s with currentPath = p and
\* now - lastSeen < HEARTBEAT_DEDUP_MS writes nothing: the table is unchanged.
C5_HeartbeatShortCircuit ==
    [][\A s \in Sessions, p \in Paths :
         (/\ lastOp'.op = "heartbeat"
          /\ lastOp'.sessionId = s
          /\ lastOp'.path = p
          /\ SessionRow(s) # 0
          /\ activeSessions[SessionRow(s)].currentPath = p
          /\ now - activeSessions[SessionRow(s)].lastSeen < HEARTBEAT_DEDUP_MS)
         => activeSessions' = activeSessions]_vars

\* a heartbeat one millisecond inside the window has just returned and the
\* row still carries the earlier lastSeen
C5_Witness ==
    /\ lastOp.op = "heartbeat"
    /\ SessionRow(lastOp.sessionId) # 0
    /\ activeSessions[SessionRow(lastOp.sessionId)].currentPath = lastOp.path
    /\ now - activeSessions[SessionRow(lastOp.sessionId)].lastSeen
           = HEARTBEAT_DEDUP_MS - 1

\* C6: a heartbeat(s, p) that finds the row of s with another currentPath,
\* or with now - lastSeen >= HEARTBEAT_DEDUP_MS, sets currentPath = p and
\* lastSeen = now in that same row and touches no other row; one that finds
\* no row appends a row with those values.
C6_HeartbeatUpdate ==
    [][\A s \in Sessions, p \in Paths :
         (/\ lastOp'.op = "heartbeat"
          /\ lastOp'.sessionId = s
          /\ lastOp'.path = p)
         => LET e == SessionRow(s)
            IN  /\ (e # 0 /\ (activeSessions[e].currentPath # p
                              \/ now - activeSessions[e].lastSeen >= HEARTBEAT_DEDUP_MS))
                     => activeSessions' =
                            [activeSessions EXCEPT ![e].currentPath = p,
                                                   ![e].lastSeen = now]
                /\ e = 0
                     => /\ Len(activeSessions') = Len(activeSessions) + 1
                        /\ SubSeq(activeSessions', 1, Len(activeSessions)) = activeSessions
                        /\ activeSessions'[Len(activeSessions')].sessionId = s
                        /\ activeSessions'[Len(activeSessions')].currentPath = p
                        /\ activeSessions'[Len(activeSessions')].lastSeen = now]_vars

\* a row created earlier has been moved to another path inside the 10 s
\* window: the heartbeat that did it is the last call and no time has passed
\* since the first millisecond
C6_Witness ==
    /\ lastOp.op = "heartbeat"
    /\ lastOp.outcome = "patched"
    /\ now = 1
    /\ activeSessions[SessionRow(lastOp.sessionId)].currentPath = lastOp.path
    /\ activeSessions[SessionRow(lastOp.sessionId)].lastSeen = 1

\* C7: a run of cleanupStaleSessions at time now deletes exactly the rows
\* with lastSeen < now - SESSION_TIMEOUT_MS and leaves every other row, one
\* with lastSeen = now - SESSION_TIMEOUT_MS included, as it was.
C7_ReaperExact ==
    [][lastOp'.op = "cleanupStaleSessions"
         => activeSessions' =
                SelectSeq(activeSessions,
                          LAMBDA r : r.lastSeen >= now - SESSION_TIMEOUT_MS)]_vars

\* a run has deleted one row and kept the row whose lastSeen is exactly the cutoff
C7_Witness ==
    /\ lastOp.op = "cleanupStaleSessions"
    /\ lastOp.count = 1
    /\ Len(activeSessions) = 1
    /\ activeSessions[1].lastSeen = now - SESSION_TIMEOUT_MS

\* C8: activeVisitors returned by getStats is the number of rows with
\* lastSeen >= now - SESSION_TIMEOUT_MS; stale rows the cron has not yet
\* deleted are not counted.
C8_ActiveCount ==
    lastOp.op = "getStats"
        => lastOp.count =
               Len(SelectSeq(activeSessions,
                             LAMBDA r : now - r.lastSeen <= SESSION_TIMEOUT_MS))

\* getStats has just counted one active session while a stale row is still stored
C8_Witness ==
    /\ lastOp.op = "getStats"
    /\ lastOp.count = 1
    /\ Len(activeSessions) = 2
    /\ \E i \in 1..2 : now - activeSessions[i].lastSeen > SESSION_TIMEOUT_MS

\* C9: with handlers interleaved at their awaits, at most MaxInFlight rows
\* of one (sessionId, path) are stored within one dedup window, and a row
\* stored less than DEDUP_WINDOW_MS after an earlier row of its pair comes
\* from an invocation whose query ran before that earlier row was stored: a
\* call that starts after the racing invocations returned stores nothing
\* inside the window.
C9_ViewRaceBounded ==
    /\ \A i \in 1..Len(pageViews) :
           Cardinality({j \in i..Len(pageViews) :
                            /\ SamePair(pageViews, i, j)
                            /\ pageViews[j].timestamp - pageViews[i].timestamp
                                   < DEDUP_WINDOW_MS}) <= MaxInFlight
    /\ \A i, j \in 1..Len(pageViews) :
           (/\ i < j
            /\ SamePair(pageViews, i, j)
            /\ pageViews[j].timestamp - pageViews[i].timestamp < DEDUP_WINDOW_MS)
               => viewSeen[j] < i

\* two racing invocations have both stored a row in one window, every
\* invocation has returned, and a later call for the pair was a duplicate
C9_Witness ==
    /\ \A c \in CallIds : calls[c].pc = "idle"
    /\ lastOp.op = "recordPageView"
    /\ lastOp.outcome = "duplicate"
    /\ \E i, j \in ViewsOf(pageViews, lastOp.sessionId, lastOp.path) :
           /\ i < j
           /\ pageViews[j].timestamp - pageViews[i].timestamp < DEDUP_WINDOW_MS
           /\ now > pageViews[j].timestamp

TriggerOps == {"navigate", "rerun", "interval"}

\* C11: within one tab at most one heartbeat call is in flight at any time,
\* and a tick or path change that occurs while isHeartbeatPending is true
\* issues no call and changes none of isHeartbeatPending, lastHeartbeatTime
\* and lastHeartbeatPath.
C11_PendingGuard ==
    /\ [](Len(hbInFlight) <= 1)
    /\ [][(lastOp'.op \in TriggerOps /\ isHeartbeatPending)
            => /\ hbInFlight' = hbInFlight
               /\ isHeartbeatPending' = isHeartbeatPending
               /\ lastHeartbeatTime' = lastHeartbeatTime
               /\ lastHeartbeatPath' = lastHeartbeatPath]_vars

\* a path change arrived while a call was in flight and was skipped
C11_Witness ==
    /\ lastOp.op = "navigate"
    /\ lastOp.outcome = "skipped-pending"
    /\ isHeartbeatPending
    /\ Len(hbInFlight) = 1
    /\ lastHeartbeatPath # location

\* C12: a trigger for path p that finds no call pending is skipped when
\* lastHeartbeatPath = p and now - lastHeartbeatTime < HEARTBEAT_DEBOUNCE_MS
\* and issues a call otherwise, so a trigger for another path is never
\* debounced; two consecutive calls issued for the same path are at least
\* HEARTBEAT_DEBOUNCE_MS apart.
C12_ClientDebounce ==
    /\ [][(lastOp'.op \in TriggerOps /\ sessionIdRef # 0 /\ ~isHeartbeatPending)
            => IF /\ lastHeartbeatPath = lastOp'.path
                  /\ now - lastHeartbeatTime < HEARTBEAT_DEBOUNCE_MS
               THEN /\ hbInFlight' = hbInFlight
                    /\ isHeartbeatPending' = isHeartbeatPending
                    /\ lastHeartbeatTime' = lastHeartbeatTime
                    /\ lastHeartbeatPath' = lastHeartbeatPath
               ELSE /\ hbInFlight' = Append(hbInFlight, [path |-> lastOp'.path, at |-> now])
                    /\ isHeartbeatPending'
                    /\ lastHeartbeatTime' = now
                    /\ lastHeartbeatPath' = lastOp'.path]_vars
    /\ []((Len(hbLog) = 2 /\ hbLog[1].path = hbLog[2].path)
            => hbLog[2].at - hbLog[1].at >= HEARTBEAT_DEBOUNCE_MS)

\* a second call for the same path was issued exactly HEARTBEAT_DEBOUNCE_MS
\* after the first
C12_Witness ==
    /\ lastOp.op \in TriggerOps
    /\ lastOp.outcome = "issued"
    /\ Len(hbLog) = 2
    /\ hbLog[1].path = hbLog[2].path
    /\ hbLog[2].at - hbLog[1].at = HEARTBEAT_DEBOUNCE_MS

\* every heartbeat call issued by the tab settles, with success or failure
SpecClientFair ==
    /\ SpecClient
    /\ WF_vars(\E i \in 1..MaxInFlight, ok \in BOOLEAN : HeartbeatCompletes(i, ok))

\* C13: every issued heartbeat call that settles, resolved or rejected, sets
\* isHeartbeatPending to false and surfaces no error to the caller; the flag
\* is true only while a call is in flight, so it never stays true forever and
\* a later trigger is not held back by it.
C13_PendingReleased ==
    /\ [][lastOp'.op = "heartbeatDone"
            => /\ ~isHeartbeatPending'
               /\ lastOp'.outcome \in {"resolved", "swallowed"}]_vars
    /\ [](isHeartbeatPending => hbInFlight # <<>>)
    /\ (isHeartbeatPending ~> ~isHeartbeatPending)

\* after an earlier call settled a second one was issued; it was rejected and
\* the flag is clear again
C13_Witness ==
    /\ lastOp.op = "heartbeatDone"
    /\ lastOp.outcome = "swallowed"
    /\ Len(hbLog) = 2
    /\ hbInFlight = <<>>
    /\ ~isHeartbeatPending

\* the paths of the recordPageView calls issued so far, in order
SentPaths(sent) == [i \in 1..Len(sent) |-> sent[i].path]

\* C14: the tab issues exactly one recordPageView call on every change of
\* path (the first render included) to a path other than
\* lastRecordedPath, and none when the effect runs again with the same
\* path; the marker is set to the path whatever becomes of the call, and a
\* failed call is never issued again.
C14_PageViewRecorder ==
    [][/\ lastOp'.op \in {"navigate", "rerun"}
            => /\ lastRecordedPath' = location'
               /\ viewsSent' = IF lastRecordedPath # location'
                               THEN Append(viewsSent, [path |-> location', status |-> "pending"])
                               ELSE viewsSent
       /\ lastOp'.op = "navigate" => Len(viewsSent') = Len(viewsSent) + 1
       /\ lastOp'.op = "rerun" => viewsSent' = viewsSent
       /\ lastOp'.op \notin {"navigate", "rerun"}
            => /\ SentPaths(viewsSent') = SentPaths(viewsSent)
               /\ lastRecordedPath' = lastRecordedPath]_vars

\* the only call for the current path failed, the effect ran again, and
\* nothing was submitted a second time
C14_Witness ==
    /\ lastOp.op = "rerun"
    /\ Len(viewsSent) = 1
    /\ viewsSent[1].status = "failed"
    /\ viewsSent[1].path = location
    /\ lastRecordedPath = location

\* C15: with localStorage working, the first getSessionId call in a browser
\* generates an identifier and stores it, and every later call returns that
\* same identifier, generates none and writes nothing.
C15_SessionIdentityStable ==
    [][(lastOp'.op = "getSessionId" /\ storageMode = "ok")
         => IF storage = 0
            THEN /\ lastOp'.outcome = "generated"
                 /\ lastOp'.count # 0
                 /\ storage' = lastOp'.count
            ELSE /\ lastOp'.outcome = "stored"
                 /\ lastOp'.count = storage
                 /\ sessionIdRef # 0 => lastOp'.count = sessionIdRef
                 /\ storage' = storage
                 /\ idsGenerated' = idsGenerated]_vars

\* a later call returned the identifier the first call stored
C15_Witness ==
    /\ storageMode = "ok"
    /\ lastOp.op = "getSessionId"
    /\ lastOp.outcome = "stored"
    /\ lastOp.count = storage
    /\ idsGenerated = 1
    /\ phase = "mounted"

\* C16: when localStorage is unavailable, every getSessionId call returns a
\* newly created identifier and raises no error.
C16_IdentityDegrades ==
    [][(lastOp'.op = "getSessionId" /\ storageMode # "ok")
         => /\ lastOp'.outcome = "generated"
            /\ lastOp'.count = idsGenerated + 1
            /\ sessionIdRef' = lastOp'.count]_vars

C18_ReaperIdempotent ==
    [][lastOp'.op = "cleanupStaleSessions"
         => /\ (\A i \in 1..Len(activeSessions) :
                    activeSessions[i].lastSeen >= now - SESSION_TIMEOUT_MS)
                => activeSessions' = activeSessions
            /\ lastOp.op = "cleanupStaleSessions" => activeSessions' = activeSessions
            /\ pageViews' = pageViews]_vars

\* a run deleted the older row; a further run at the same instant found
\* nothing to delete and left the row at the cutoff in place
C18_Witness ==
    /\ lastOp.op = "cleanupStaleSessions"
    /\ lastOp.count = 0
    /\ Len(activeSessions) = 1
    /\ activeSessions[1]._id = 2
    /\ activeSessions[1].lastSeen = now - SESSION_TIMEOUT_MS

\* cleanupStaleSessions when ctx.db.delete rejects for the row failedId:
\* Promise.all rejects and the handler throws. Every delete was started by
\* the map, so the others are applied when the store keeps them (kept), and
\* none is when the store drops the writes of a mutation that threw.
CleanupDeleteFails(failedId, kept) ==
    LET cutoff == SessionCutoff(now)
        staleSessions == StaleSessions(activeSessions, cutoff)
    IN  /\ failedId \in staleSessions
        /\ activeSessions' = IF kept
                             THEN DeleteSessions(activeSessions, staleSessions \ {failedId})
                             ELSE activeSessions
        /\ lastOp' = Op("cleanupStaleSessions", NoArg, NoArg, NoArg, "error", failedId)
        /\ UNCHANGED <<now, ticks, pageViews, calls, firstCallAt, viewSeen>>
        /\ UNCHANGED clientVars
        /\ UNCHANGED statsVars
    /\ UNCHANGED siteVars

\* the activeSessions write path with the cron, whose deletes may fail
NextSessionsFaulty ==
    \/ NextSessions
    \/ \E failedId \in 1..MaxSessionRows, kept \in BOOLEAN : CleanupDeleteFails(failedId, kept)

SpecSessionsFaulty == Init /\ [][NextSessionsFaulty]_vars

\* C19: when the delete of one qualifying row fails during a
\* cleanupStaleSessions run, every other row with
\* lastSeen < now - SESSION_TIMEOUT_MS is still deleted by that run (and the
\* row whose delete failed stays for a later run).
C19_ReaperPartialFailure ==
    [][(lastOp'.op = "cleanupStaleSessions" /\ lastOp'.outcome = "error")
         => \A i \in 1..Len(activeSessions) :
               (\E j \in 1..Len(activeSessions') :
                    activeSessions'[j]._id = activeSessions[i]._id)
                 <=> \/ activeSessions[i].lastSeen >= now - SESSION_TIMEOUT_MS
                     \/ activeSessions[i]._id = lastOp'.count]_vars

\* the cron runs cleanupStaleSessions again and again: crons.interval(...,
\* { minutes: 5 }, ...) with at-least-once scheduling
SpecCron ==
    /\ SpecSessions
    /\ WF_vars(CleanupStaleSessions)

\* session s has a row that the next cleanupStaleSessions run qualifies
StaleRowOf(s) ==
    \E i \in 1..Len(activeSessions) :
        /\ activeSessions[i].sessionId = s
        /\ activeSessions[i].lastSeen < now - SESSION_TIMEOUT_MS

\* C20: a row whose lastSeen is more than SESSION_TIMEOUT_MS old is deleted
\* by the first cleanupStaleSessions run that happens, and with the cron
\* running at least once more every session left without an accepted
\* heartbeat eventually has no such row.
C20_StaleEventuallyRemoved ==
    /\ [][lastOp'.op = "cleanupStaleSessions"
            => \A i \in 1..Len(activeSessions) :
                  activeSessions[i].lastSeen < now - SESSION_TIMEOUT_MS
                    => \A j \in 1..Len(activeSessions') :
                          activeSessions'[j]._id # activeSessions[i]._id]_vars
    /\ \A s \in Sessions : StaleRowOf(s) ~> ~StaleRowOf(s)

\* both sessions were abandoned and one run removed both rows
C20_Witness ==
    /\ lastOp.op = "cleanupStaleSessions"
    /\ lastOp.count = 2
    /\ activeSessions = <<>>
    /\ now > SESSION_TIMEOUT_MS

\* C21: no operation (recordPageView, heartbeat, cleanupStaleSessions,
\* getStats) modifies or deletes a stored pageViews row; over any sequence of
\* operations the log only grows at its end.
C21_ViewLogAppendOnly ==
    [][/\ Len(pageViews') >= Len(pageViews)
       /\ \A i \in 1..Len(pageViews) : pageViews'[i] = pageViews[i]]_vars

\* the reaper deleted the session's row while the log held two views of it
C21_Witness ==
    /\ lastOp.op = "cleanupStaleSessions"
    /\ lastOp.count = 1
    /\ Len(pageViews) = 2
    /\ pageViews[1].sessionId = pageViews[2].sessionId
    /\ activeSessions = <<>>

\* C22: for every path the title matching strips one leading "/" and resolves
\* by exact slug equality: a matching post gives the (first such) post's title
\* with type "blog", otherwise a matching page gives the page's title with
\* type "page", so a post wins when a post and a page share the slug; with no
\* match title and type stay as they were.
C22_TitleMatching ==
    titleMatch.done =>
        LET path == titleMatch.path
            stripped == IF path # <<>> /\ Head(path) = "/" THEN Tail(path) ELSE path
            postHits == {i \in 1..Len(titleMatch.posts) : titleMatch.posts[i].slug = stripped}
            pageHits == {i \in 1..Len(titleMatch.pages) : titleMatch.pages[i].slug = stripped}
        IN  /\ postHits # {}
                => /\ titleMatch.pageType = "blog"
                   /\ \E i \in postHits : /\ titleMatch.title = titleMatch.posts[i].title
                                          /\ \A j \in postHits : i <= j
            /\ (postHits = {} /\ pageHits # {})
                => /\ titleMatch.pageType = "page"
                   /\ \E i \in pageHits : titleMatch.title = titleMatch.pages[i].title
            /\ (postHits = {} /\ pageHits = {})
                => /\ titleMatch.pageType = "home"
                   /\ titleMatch.title = "untitled"

\* path "/a" was stripped to "a", which is the slug of the second post and of
\* the page, while the first post's slug is "/a": the second post's title was
\* taken
C22_Witness ==
    /\ titleMatch.done
    /\ lastOp.op = "matchTitle"
    /\ titleMatch.path = <<"/", "a">>
    /\ Len(titleMatch.posts) = 2
    /\ titleMatch.posts[1].slug = <<"/", "a">>
    /\ titleMatch.posts[2].slug = <<"a">>
    /\ Len(titleMatch.pages) = 1
    /\ titleMatch.pages[1].slug = <<"a">>
    /\ titleMatch.title = "post2"
    /\ titleMatch.pageType = "blog"

\* C23: whenever a heartbeat trigger of the tab is skipped because
\* isHeartbeatPending is true, the call in flight carries the tab's current
\* path, also when the trigger was a navigation to a new path.
C23_InFlightIsCurrentIntent ==
    (lastOp.op \in TriggerOps /\ lastOp.outcome = "skipped-pending")
        => /\ hbInFlight # <<>>
           /\ \A i \in 1..Len(hbInFlight) : hbInFlight[i].path = location

\* C24: the tab has at most one interval timer at any time, and it is the one
\* set for the current path; navigation and unmount clear the old timer, so
\* once the tab has left a path no interval tick triggers a heartbeat for it
\* and an unmounted tab has no timer; a call already in flight is not aborted
\* by either.
C24_TimerLifecycle ==
    /\ [](Len(timers) <= 1)
    /\ [](\A i \in 1..Len(timers) : timers[i] = location /\ phase = "mounted")
    /\ [][lastOp'.op = "interval" => (phase = "mounted" /\ lastOp'.path = location)]_vars
    /\ [][lastOp'.op \in {"navigate", "unmount"}
            => \A i \in 1..Len(hbInFlight) :
                  i <= Len(hbInFlight') /\ hbInFlight'[i] = hbInFlight[i]]_vars

\* the tab unmounted while its heartbeat call was in flight: no timer is
\* left and the call is still awaited
C24_Witness ==
    /\ lastOp.op = "unmount"
    /\ phase = "unmounted"
    /\ timers = <<>>
    /\ Len(hbInFlight) = 1
    /\ isHeartbeatPending

\* the currentPath the server holds for the tab's session, NoArg without a row
ServerPath ==
    LET row == SessionRow(SessionKeyOf(sessionIdRef))
    IN  IF sessionIdRef = 0 \/ row = 0 THEN NoArg ELSE activeSessions[row].currentPath

\* C25: with one tab whose heartbeat calls succeed, a call that returns leaves
\* the session's row with the path it carried; an interval tick that finds no
\* call in flight either finds the row already at the tab's path or issues a
\* call carrying it; so when the tab navigates to a path and stays there, the
\* row's currentPath eventually equals that path and stays so.
C25_CurrentPathConverges ==
    /\ [][lastOp'.op = "heartbeatDone" => ServerPath' = lastOp'.path]_vars
    /\ [][(lastOp'.op = "interval" /\ ~isHeartbeatPending /\ sessionIdRef # 0)
            => \/ ServerPath = location
               \/ hbInFlight' = <<[path |-> location, at |-> now]>>]_vars
    /\ \A q \in Paths :
          <>[](phase = "mounted" /\ location = q /\ sessionIdRef # 0)
            => <>[](ServerPath = q)

\* the tab went from one path to another; a call for the first and later a
\* call for the second were issued, the second returned and the row holds
\* the tab's path
C25_Witness ==
    /\ lastOp.op = "heartbeatDone"
    /\ phase = "mounted"
    /\ ServerPath = location
    /\ Len(hbLog) = 2
    /\ hbLog[1].path # location
    /\ hbLog[2].path = location
    /\ hbLog[2].at > hbLog[1].at
    /\ Len(viewsSent) = 2

\* the row of the tab's session, 0 without one
TabRow == IF sessionIdRef = 0 THEN 0 ELSE SessionRow(SessionKeyOf(sessionIdRef))

\* a call of the tab has returned
SomeCallReturned == hbLog # <<>> /\ ~(Len(hbLog) = 1 /\ isHeartbeatPending)

\* C26 as stated: for a tab that stays open and whose heartbeat calls all
\* succeed, every interval tick passes the client debounce and the server
\* short-circuit and refreshes lastSeen, no cleanupStaleSessions run deletes
\* the session's row, and every getStats counts the session.
C26_LiveNeverReaped ==
    /\ [][lastOp'.op = "interval" => lastOp'.outcome = "issued"]_vars
    /\ [][lastOp'.op = "heartbeatDone"
            => (TabRow' # 0 /\ activeSessions'[TabRow'].lastSeen = now)]_vars
    /\ [][lastOp'.op = "cleanupStaleSessions" => lastOp'.count = 0]_vars
    /\ [][(lastOp'.op = "getStats" /\ SomeCallReturned) => lastOp'.count >= 1]_vars

\* the latest interval tick (or the first render) issued a call, and so did
\* the tick before it: each call returned before the next tick
CallsOnTime ==
    LET k == now \div HEARTBEAT_INTERVAL_MS
    IN  /\ phase = "mounted"
        /\ lastHeartbeatTime = k * HEARTBEAT_INTERVAL_MS
        /\ k = 0 => ~isHeartbeatPending
        /\ k >= 1 => /\ Len(hbLog) = 2
                     /\ hbLog[1].at = (k - 1) * HEARTBEAT_INTERVAL_MS

\* C26 amended: an interval tick that finds no call in flight passes the
\* client debounce and issues a call; a call that returns leaves lastSeen
\* less than HEARTBEAT_DEDUP_MS behind; and while every call returns before
\* the next tick, the session's row is never older than two intervals plus
\* HEARTBEAT_DEDUP_MS, no cleanupStaleSessions run deletes it and getStats
\* counts the session.
C26_LiveWhileCallsReturn ==
    /\ [][(lastOp'.op = "interval" /\ ~isHeartbeatPending) => lastOp'.outcome = "issued"]_vars
    /\ [][lastOp'.op = "heartbeatDone"
            => /\ TabRow' # 0
               /\ now - activeSessions'[TabRow'].lastSeen < HEARTBEAT_DEDUP_MS]_vars
    /\ [](CallsOnTime
            => /\ TabRow # 0
               /\ now - activeSessions[TabRow].lastSeen
                      < 2 * HEARTBEAT_INTERVAL_MS + HEARTBEAT_DEDUP_MS)
    /\ [][(CallsOnTime /\ lastOp'.op = "cleanupStaleSessions")
            => (lastOp'.count = 0 /\ activeSessions' = activeSessions)]_vars
    /\ [][(CallsOnTime /\ lastOp'.op = "getStats") => lastOp'.count >= 1]_vars

\* well past the session timeout, with every call so far back in time, a
\* reaper run found the tab's row and left it
C26_Witness ==
    /\ lastOp.op = "cleanupStaleSessions"
    /\ lastOp.count = 0
    /\ CallsOnTime
    /\ now > SESSION_TIMEOUT_MS
    /\ TabRow # 0
    /\ now - activeSessions[TabRow].lastSeen > HEARTBEAT_INTERVAL_MS

\* C27: right after any heartbeat(s, p) call returns at time now (calls run
\* one at a time), the row of s has currentPath = p and
\* 0 <= now - lastSeen < HEARTBEAT_DEDUP_MS: a short-circuited call leaves
\* lastSeen behind by less than 10 s, never by more.
C27_HeartbeatPostcondition ==
    lastOp.op = "heartbeat"
        => LET e == SessionRow(lastOp.sessionId)
           IN  /\ e # 0
               /\ activeSessions[e].currentPath = lastOp.path
               /\ now - activeSessions[e].lastSeen >= 0
               /\ now - activeSessions[e].lastSeen < HEARTBEAT_DEDUP_MS

\* a call was short-circuited at the last millisecond of the window, the row
\* having been written at time 1
C27_Witness ==
    /\ lastOp.op = "heartbeat"
    /\ lastOp.outcome = "noop"
    /\ now = HEARTBEAT_DEDUP_MS
    /\ SessionRow(lastOp.sessionId) # 0
    /\ activeSessions[SessionRow(lastOp.sessionId)].lastSeen = 1

\* C28: the dedup window of a (sessionId, path) pair is anchored at its latest
\* stored row: a rejected duplicate call writes nothing, and whatever calls
\* were rejected before, a call is stored exactly when no row of the pair is
\* stored or the latest one is at least DEDUP_WINDOW_MS old, so repeated
\* views of one path store a row once per window and not only one ever.
C28_WindowAnchoredAtStored ==
    [][lastOp'.op = "recordPageView"
         => LET last == SeqMax(ViewsOf(pageViews, lastOp'.sessionId, lastOp'.path))
                due == last = 0 \/ now - pageViews[last].timestamp >= DEDUP_WINDOW_MS
            IN  /\ lastOp'.outcome = (IF due THEN "inserted" ELSE "duplicate")
                /\ lastOp'.outcome = "duplicate" => pageViews' = pageViews
                /\ lastOp'.outcome = "inserted"
                     => /\ Len(pageViews') = Len(pageViews) + 1
                        /\ pageViews'[Len(pageViews')].timestamp = now]_vars

\* a call one millisecond before the window's end was rejected and wrote
\* nothing: the pair's only row is the one stored at time 0
C28_Witness ==
    /\ lastOp.op = "recordPageView"
    /\ lastOp.outcome = "duplicate"
    /\ now = DEDUP_WINDOW_MS - 1
    /\ Cardinality(ViewsOf(pageViews, lastOp.sessionId, lastOp.path)) = 1
    /\ pageViews[SeqMax(ViewsOf(pageViews, lastOp.sessionId, lastOp.path))].timestamp = 0

\* C29: a heartbeat(s, p) for a session that has no row, the one whose row
\* the reaper deleted included, appends a row with lastSeen = now and
\* currentPath = p under a document id no other row has and leaves the other
\* rows as they were; after it the table holds exactly one row of s.
C29_SessionRecreated ==
    [][\A s \in Sessions :
         (/\ lastOp'.op = "heartbeat"
          /\ lastOp'.sessionId = s
          /\ SessionsOf(activeSessions, s) = {})
         => LET n == Len(activeSessions')
            IN  /\ lastOp'.outcome = "inserted"
                /\ n = Len(activeSessions) + 1
                /\ SessionsOf(activeSessions', s) = {n}
                /\ activeSessions'[n].lastSeen = now
                /\ activeSessions'[n].currentPath = lastOp'.path
                /\ \A i \in 1..Len(activeSessions) :
                       /\ activeSessions'[i] = activeSessions[i]
                       /\ activeSessions'[i]._id # activeSessions'[n]._id]_vars

\* the row with document id 1 stands behind the row with id 2: id 2 was given
\* out while the first id-1 row, that of this session, existed, the reaper
\* then deleted that row alone, and the heartbeat that just returned created
\* the session's row again with lastSeen = now
C29_Witness ==
    /\ lastOp.op = "heartbeat"
    /\ lastOp.outcome = "inserted"
    /\ now > SESSION_TIMEOUT_MS
    /\ Len(activeSessions) = 2
    /\ activeSessions[1]._id = 2
    /\ activeSessions[1].sessionId # lastOp.sessionId
    /\ activeSessions[2]._id = 1
    /\ activeSessions[2].sessionId = lastOp.sessionId
    /\ activeSessions[2].currentPath = lastOp.path
    /\ activeSessions[2].lastSeen = now

OwnViews(views, s, p) ==
    SelectSeq(views, LAMBDA r : r.sessionId = s /\ r.path = p)

\* C31: recordPageView leaves every activeSessions row as it was and appends
\* at most one pageViews row, which is of the pair it was called with; whether
\* it stores is decided by the rows of that pair alone. heartbeat(s, p) leaves
\* pageViews as it was and changes or adds no row of a session other than s.
C31_Frame ==
    [][\A s \in Sessions, p \in Paths :
         /\ (lastOp'.op = "recordPageView" /\ lastOp'.sessionId = s /\ lastOp'.path = p)
              => LET own == OwnViews(pageViews, s, p)
                     dup == own # <<>> /\ own[Len(own)].timestamp > now - DEDUP_WINDOW_MS
                 IN  /\ activeSessions' = activeSessions
                     /\ lastOp'.outcome = (IF dup THEN "duplicate" ELSE "inserted")
                     /\ \A s2 \in Sessions, p2 \in Paths :
                           (s2 # s \/ p2 # p)
                               => OwnViews(pageViews', s2, p2) = OwnViews(pageViews, s2, p2)
         /\ (lastOp'.op = "heartbeat" /\ lastOp'.sessionId = s)
              => /\ pageViews' = pageViews
                 /\ \A s2 \in Sessions \ {s} :
                       SelectSeq(activeSessions', LAMBDA r : r.sessionId = s2)
                           = SelectSeq(activeSessions, LAMBDA r : r.sessionId = s2)]_vars

\* a view of one pair was stored although the newest row of the log, stored
\* at the same instant, is of the other session on the same path, whose
\* activeSessions row the call left alone
C31_Witness ==
    /\ lastOp.op = "recordPageView"
    /\ lastOp.outcome = "inserted"
    /\ Len(pageViews) = 2
    /\ pageViews[1].sessionId # lastOp.sessionId
    /\ pageViews[1].path = lastOp.path
    /\ pageViews[2].sessionId = lastOp.sessionId
    /\ pageViews[2].timestamp = pageViews[1].timestamp
    /\ now = DEDUP_WINDOW_MS
    /\ \E i \in 1..Len(activeSessions) :
          activeSessions[i].sessionId = pageViews[1].sessionId

\* C32: at every instant each activeSessions row is either counted by
\* getStats.activeVisitors or deleted by a cleanupStaleSessions run at that
\* instant, never both and never neither: getStats returns the number of rows
\* with lastSeen >= now - SESSION_TIMEOUT_MS, and a reaper run that directly
\* follows it at the same instant keeps exactly that many rows, those with
\* lastSeen >= now - SESSION_TIMEOUT_MS, and deletes all others.
C32_CutoffsAgree ==
    [][LET active == {i \in 1..Len(activeSessions) :
                        activeSessions[i].lastSeen >= now - SESSION_TIMEOUT_MS}
       IN  /\ lastOp'.op = "getStats" => lastOp'.count = Cardinality(active)
           /\ (lastOp.op = "getStats" /\ lastOp'.op = "cleanupStaleSessions")
                => /\ Len(activeSessions') = lastOp.count
                   /\ lastOp'.count = Len(activeSessions) - lastOp.count
                   /\ \A i \in 1..Len(activeSessions) :
                         (i \in active) <=> (RowOfId(activeSessions', activeSessions[i]._id) # 0)]_vars

\* getStats has counted the row exactly at the cutoff and not the row one
\* millisecond older, which the reaper would delete
C32_Witness ==
    /\ lastOp.op = "getStats"
    /\ lastOp.count = 1
    /\ Len(activeSessions) = 2
    /\ \E i, j \in 1..2 :
          /\ activeSessions[i].lastSeen = now - SESSION_TIMEOUT_MS
          /\ activeSessions[j].lastSeen = now - SESSION_TIMEOUT_MS - 1

C34_AnswerOrdering ==
    [][(lastOp'.op = "streamResponse" /\ lastOp'.outcome = "200")
         => LET b == streamBodies'[askReq'.body.streamId]
                model == askAISessions[askReq'.session].model
                search == askReq'.search
                keySet == IF model = "gpt-4o" THEN env.openai ELSE env.anthropic
                good == /\ search.searchError = NoArg
                        /\ search.searchResults >= 1
                        /\ keySet
                srcAt == {i \in 1..Len(b) : b[i] \in {"sourcesHeader", "source"}}
                ansAt == {i \in 1..Len(b) : b[i] = "answer"}
            IN  /\ \A i \in srcAt, j \in ansAt : j < i
                /\ srcAt # {}
                     => /\ good
                        /\ srcAt = (Len(b) - search.searchResults)..Len(b)
                        /\ b[Len(b) - search.searchResults] = "sourcesHeader"
                        /\ ansAt = 1..(Len(b) - search.searchResults - 1)
                /\ ~good
                     => /\ Len(b) = 1
                        /\ b[1] \in {"searchError", "noContent", "keyError"}
                        /\ ~askReq'.llm
                /\ askReq'.llm => good]_vars

\* the OpenAI model answered in two chunks and the Sources header and the two
\* result lines follow them
C34_Witness ==
    /\ lastOp.op = "streamResponse"
    /\ lastOp.outcome = "200"
    /\ askAISessions[1].model = "gpt-4o"
    /\ streamBodies[1] = <<"answer", "answer", "sourcesHeader", "source", "source">>

\* C35: for each of the four combinations of the two keys, the result of
\* checkConfiguration has configured = TRUE exactly when OPENAI_API_KEY is set
\* and one of the two keys is set, hasOpenAI and hasAnthropic tell which keys
\* are set, and missingKeys lists each key that is not set once and no other.
C35_ConfigurationCheck ==
    configResult.done
        => LET missing == {configResult.missingKeys[i] :
                               i \in 1..Len(configResult.missingKeys)}
           IN  /\ configResult.configured
                    <=> (env.openai /\ (env.anthropic \/ env.openai))
               /\ configResult.hasOpenAI <=> env.openai
               /\ configResult.hasAnthropic <=> env.anthropic
               /\ "OPENAI_API_KEY" \in missing <=> ~env.openai
               /\ "ANTHROPIC_API_KEY" \in missing <=> ~env.anthropic
               /\ missing \subseteq {"OPENAI_API_KEY", "ANTHROPIC_API_KEY"}
               /\ Len(configResult.missingKeys) = Cardinality(missing)

\* with only the OpenAI key set the check has answered configured and lists
\* the Anthropic key as the one missing
C35_Witness ==
    /\ configResult.done
    /\ env.openai
    /\ ~env.anthropic
    /\ configResult.configured
    /\ configResult.missingKeys = <<"ANTHROPIC_API_KEY">>

\* C36: at most one createSession call of the modal is in flight at any time;
\* a handleSend while isSubmitting or with an input that trims to nothing
\* changes nothing; an accepted handleSend appends the user message and sets
\* isSubmitting; the call's settling appends exactly one assistant message (a
\* streaming one when it resolved, the error one when it rejected) and resets
\* isSubmitting; no other step but handleClear touches the messages, and
\* every isSubmitting = TRUE is followed by isSubmitting = FALSE.
C36_SendGuard ==
    /\ [](Len(createPending) <= 1)
    /\ [][/\ (lastOp'.op = "handleSend"
                /\ (isSubmitting \/ \A i \in 1..Len(inputValue) : inputValue[i] = " "))
               => /\ lastOp'.outcome = "ignored"
                  /\ UNCHANGED <<messages, inputValue, isSubmitting, createPending,
                                 drivenIds, askAISessions>>
          /\ (lastOp'.op = "handleSend" /\ lastOp'.outcome = "accepted")
               => /\ ~isSubmitting /\ isSubmitting'
                  /\ Len(messages') = Len(messages) + 1
                  /\ SubSeq(messages', 1, Len(messages)) = messages
                  /\ messages'[Len(messages')].role = "user"
                  /\ messages'[Len(messages')].content # <<>>
                  /\ Len(createPending') = 1
          /\ lastOp'.op = "createSessionDone"
               => /\ isSubmitting /\ ~isSubmitting'
                  /\ createPending' = <<>>
                  /\ Len(messages') = Len(messages) + 1
                  /\ SubSeq(messages', 1, Len(messages)) = messages
                  /\ messages'[Len(messages')].role = "assistant"
                  /\ (lastOp'.outcome = "resolved")
                       <=> (messages'[Len(messages')].streamId # 0)
                  /\ (lastOp'.outcome = "rejected")
                       <=> (messages'[Len(messages')].content # <<>>)
          /\ (lastOp'.op \notin {"handleSend", "createSessionDone", "handleClear"})
               => messages' = messages]_vars
    /\ (isSubmitting ~> ~isSubmitting)

\* two sends have run to their end: the first call resolved, the second was
\* rejected, each user message is followed by its one assistant message and
\* isSubmitting is false again
C36_Witness ==
    /\ lastOp.op = "createSessionDone"
    /\ lastOp.outcome = "rejected"
    /\ ~isSubmitting
    /\ Len(messages) = 4
    /\ messages[1].role = "user"
    /\ messages[2].streamId = 1
    /\ messages[3].role = "user"
    /\ messages[4] = ErrorMessage
    /\ drivenIds = {1}

\* what each step of the hook does to the poll: an enabled hook mounted with a
\* non-empty q polls POLL_INTERVAL after its start and after every poll that
\* finds no content; a poll gives up exactly when more than MAX_WAIT_TIME has
\* elapsed since the start, and removes q at once; otherwise it highlights
\* exactly when the container has content, and a removal of q is pending at
\* most URL_CLEANUP_DELAY later; either ends the polling, and so do the
\* cleanups run by the unmount and by the removal of q
PollRule ==
    /\ (lastOp'.op = "mountHook" /\ hlEnabled /\ searchQuery \notin {NoArg, ""})
         => pollTimeout' = hlClock + POLL_INTERVAL
    /\ lastOp'.op = "poll"
         => LET elapsed == hlClock' - startTime
            IN  /\ hlClock' >= pollTimeout
                /\ lastOp'.outcome =
                       (IF elapsed > MAX_WAIT_TIME THEN "gaveUp"
                        ELSE IF contentReady THEN "highlighted"
                        ELSE "waiting")
                /\ lastOp'.outcome = "waiting"
                     => /\ pollTimeout' = hlClock' + POLL_INTERVAL
                        /\ UNCHANGED <<searchQuery, highlightCount>>
                /\ lastOp'.outcome = "gaveUp"
                     => /\ pollTimeout' = NoTimer
                        /\ searchQuery' = NoArg
                        /\ highlightCount' = highlightCount
                /\ lastOp'.outcome = "highlighted"
                     => /\ pollTimeout' = NoTimer
                        /\ highlightCount' = highlightCount + 1
                        /\ urlTimeout' # NoTimer
                        /\ urlTimeout' <= hlClock' + URL_CLEANUP_DELAY
    /\ lastOp'.op \in {"unmountHook", "urlCleanup"} => pollTimeout' = NoTimer
    /\ lastOp'.op \in {"contentLoads", "escape"} => pollTimeout' = pollTimeout

\* while the hook stays mounted a pending poll always leads to one of the two
\* outcomes, and a highlighting to the removal of q
PollEnds ==
    /\ ((pollTimeout # NoTimer)
          ~> (\/ hlMounted = "unmounted"
              \/ (lastOp.op = "poll" /\ lastOp.outcome \in {"highlighted", "gaveUp"})))
    /\ ((lastOp.op = "poll" /\ lastOp.outcome = "highlighted")
          ~> (searchQuery = NoArg))

\* C37: the polling of an enabled hook with a non-empty q follows PollRule and
\* ends as PollEnds says, no poll is pending after the unmount, and
\* performHighlighting runs at most once for the query.
C37_PollingTerminates ==
    /\ [][PollRule]_vars
    /\ [](highlightCount <= 1)
    /\ [](hlMounted = "unmounted" => pollTimeout = NoTimer)
    /\ PollEnds

\* C37 (amended): as C37, but performHighlighting runs only while
\* hasHighlighted.current is false, which after a highlighting it is only once
\* Escape was pressed: at most once for the query unless Escape was pressed.
C37_PollingTerminatesUnlessEscape ==
    /\ [][/\ PollRule
          /\ (lastOp'.op = "poll" /\ lastOp'.outcome = "highlighted")
               => ~hasHighlighted]_vars
    /\ [](~escaped => highlightCount <= 1)
    /\ [](hlMounted = "unmounted" => pollTimeout = NoTimer)
    /\ PollEnds

\* the query was highlighted, Escape was pressed before the removal of q and
\* another search parameter changed: the effect ran again and the poll has
\* highlighted the query a second time
C37_Witness ==
    /\ lastOp.op = "poll"
    /\ lastOp.outcome = "highlighted"
    /\ hlMounted = "mounted"
    /\ escaped
    /\ paramChanges = 1
    /\ highlightCount = 2
    /\ searchQuery = "a"
    /\ urlTimeout # NoTimer

====
